---------------------------- MODULE Spec2Model ----------------------------
(***************************************************************************)
(* A model of the mypv package: the discovery codec (discovery.py) and the *)
(* AC-THOR session with its register store (acthor/_acthor.py,             *)
(* acthor/_registers.py, acthor/_features.py).                             *)
(*                                                                         *)
(* Bytes are integers 0..255, byte strings and ASCII strings are sequences *)
(* of bytes, registers are integers 0..65535.  An optional argument is a   *)
(* sequence: <<>> for None, <<x>> for a given x.  An IPv4Address is its    *)
(* 32-bit integer, held as <<high 16 bits, low 16 bits>>.                  *)
(***************************************************************************)
EXTENDS Integers, Sequences, FiniteSets, TLC

VARIABLES
    \* ---- discovery codec ------------------------------------------------
    c_stage,        \* "idle" | "encoded" | "flipped" | "resized" | "crafted" | "decoded"
    c_origin,       \* the stage the decoded frame came from
    c_kind,         \* "request" | "reply": which class encodes / decodes
    c_msg,          \* the message handed to encode
    c_frame,        \* the bytes on the wire
    c_flip,         \* <<>> or <<offset, bit>>: the bit flipped in the frame
    c_result,       \* the outcome of decode
    \* ---- AC-THOR session ------------------------------------------------
    phase,          \* "Disconnected" | "Connecting" | "Identifying" | "Refreshing" | "Ready" | "Failed"
    client_kind,    \* "base" (a ModbusBaseClient) | "mixin" (only a ModbusClientMixin)
    transport_open, \* whether the client's transport is open
    device,         \* the device on the other end: its identification window
    features,       \* the session's DeviceFeatures
    _registers,     \* the session's Registers object: 0 for none, else its number
    values,         \* Registers._values
    tasks,          \* the update_registers calls in flight
    reads,          \* number of full-range reads issued to the transport
    requests,       \* the full-range reads issued, in order: <<address, count>>
    call,           \* the last completed call: its arguments, outcome and writes
    \* ---- capability set and register store, called directly --------------
    p_op,           \* the function last applied: "none" | "build" | "read" | ...
    p_in,           \* its arguments
    p_out,          \* what it returned, or the error it raised
    \* ---- discovery listener: discover() and its consumer ------------------
    l_pc,           \* discover(): "init" | "entering" | "get" | "yield" | "done"
    l_socket,       \* the datagram transport: "none" | "open" | "closed"
    l_lost,         \* connection_lost is scheduled and has not run yet
    l_callback,     \* whether _Protocol._callback is set
    l_queue,        \* the asyncio.Queue: [items, shutdown]
    l_timer,        \* the call_later handle: "none" | "armed" | "fired" | "cancelled"
    l_rx,           \* number of datagrams that arrived
    l_last,         \* the last datagram that arrived and what became of it
    l_delivered,    \* the replies the consumer was handed, in order
    l_signals       \* number of times the callback was invoked with None

codec_vars == <<c_stage, c_origin, c_kind, c_msg, c_frame, c_flip, c_result>>
session_vars == <<phase, client_kind, transport_open, device, features, _registers, values,
                  tasks, reads, requests, call>>
pure_vars == <<p_op, p_in, p_out>>
listener_vars == <<l_pc, l_socket, l_lost, l_callback, l_queue, l_timer, l_rx,
                   l_last, l_delivered, l_signals>>
non_codec_vars == <<session_vars, pure_vars, listener_vars>>
non_session_vars == <<codec_vars, pure_vars, listener_vars>>
non_pure_vars == <<codec_vars, session_vars, listener_vars>>
non_listener_vars == <<codec_vars, session_vars, pure_vars>>
vars == <<codec_vars, session_vars, pure_vars, listener_vars>>

(***************************************************************************)
(* Bytes and integers                                                      *)
(***************************************************************************)
Pow2(n) == 2 ^ n

\* the value of bit k of x
Bit(x, k) == (x \div Pow2(k)) % 2

\* x with bit k inverted
ToggleBit(x, k) == IF Bit(x, k) = 1 THEN x - Pow2(k) ELSE x + Pow2(k)

RECURSIVE XorBits(_, _, _)
XorBits(a, b, k) ==
    IF k = 0 THEN 0
    ELSE ((a + b) % 2) + 2 * XorBits(a \div 2, b \div 2, k - 1)

\* a ^ b for bytes, as a table
XorByte == [a \in 0..255 |-> [b \in 0..255 |-> XorBits(a, b, 8)]]

\* int.to_bytes(n, "big")
RECURSIVE ToBytesBig(_, _)
ToBytesBig(x, n) ==
    IF n = 0 THEN <<>> ELSE Append(ToBytesBig(x \div 256, n - 1), x % 256)

\* int.to_bytes(n, "little")
RECURSIVE ToBytesLittle(_, _)
ToBytesLittle(x, n) ==
    IF n = 0 THEN <<>> ELSE <<x % 256>> \o ToBytesLittle(x \div 256, n - 1)

\* int.from_bytes(b, "big")
RECURSIVE FromBytesBig(_)
FromBytesBig(b) ==
    IF Len(b) = 0 THEN 0
    ELSE 256 * FromBytesBig(SubSeq(b, 1, Len(b) - 1)) + b[Len(b)]

\* int.from_bytes(b, "little")
RECURSIVE FromBytesLittle(_)
FromBytesLittle(b) ==
    IF Len(b) = 0 THEN 0
    ELSE b[1] + 256 * FromBytesLittle(SubSeq(b, 2, Len(b)))

\* bytearray(n)
Zeros(n) == [i \in 1..n |-> 0]

\* data[start:stop] of a byte string, 0-based and half open, clamped as Python does
Slice(data, start, stop) ==
    LET hi == IF stop > Len(data) THEN Len(data) ELSE stop
    IN  IF start >= hi THEN <<>> ELSE SubSeq(data, start + 1, hi)

\* data[start:]
SliceFrom(data, start) == Slice(data, start, Len(data))

\* buf[start:stop] = b on a bytearray: the slice is replaced by b, whatever its length
SetSlice(buf, start, stop, b) ==
    Slice(buf, 0, start) \o b \o SliceFrom(buf, IF stop < start THEN start ELSE stop)

\* bytes.ljust(width, b"\x00")
LJust(b, width) == IF Len(b) >= width THEN b ELSE b \o Zeros(width - Len(b))

\* str.rstrip("\x00")
RECURSIVE RStripNul(_)
RStripNul(s) ==
    IF Len(s) > 0 /\ s[Len(s)] = 0 THEN RStripNul(SubSeq(s, 1, Len(s) - 1)) ELSE s

\* whether bytes.decode("ascii") accepts b
IsAscii(b) == \A i \in 1..Len(b) : b[i] < 128

(***************************************************************************)
(* discovery.py: identification codes and names                            *)
(***************************************************************************)
AC_THOR_9S == 20300
AC_THOR == 20100
MY_PV_METER == 20110
AC_ELWA_2 == 16150
AC_ELWA_E == 16124

DeviceIdentification == {AC_THOR_9S, AC_THOR, MY_PV_METER, AC_ELWA_2, AC_ELWA_E}

\* _DEVICE_NAMES, as ASCII
device_name(id) ==
    CASE id = AC_THOR_9S  -> <<65, 67, 45, 84, 72, 79, 82, 32, 57, 83>>
      [] id = AC_THOR     -> <<65, 67, 45, 84, 72, 79, 82>>
      [] id = MY_PV_METER -> <<109, 121, 45, 80, 86, 32, 77, 101, 116, 101, 114>>
      [] id = AC_ELWA_2   -> <<65, 67, 32, 69, 76, 87, 65, 32, 50>>
      [] id = AC_ELWA_E   -> <<65, 67, 32, 69, 76, 87, 65, 45, 69>>

REQUEST_LENGTH == 32
REPLY_LENGTH == 64

(***************************************************************************)
(* _crc16: FramerRTU.compute_CRC of pymodbus, the table-driven reflected   *)
(* CRC-16 with polynomial 0xA001 and initial value 0xFFFF, returned with   *)
(* its two bytes swapped.                                                  *)
(***************************************************************************)
\* n turns of: crc = (crc >> 1) ^ 0xA001 if crc & 1 else crc >> 1
RECURSIVE CrcShift(_, _)
CrcShift(crc, n) ==
    IF n = 0 THEN crc
    ELSE LET half == crc \div 2
             next == IF crc % 2 = 1 THEN XorBits(half, 40961, 16) ELSE half
         IN  CrcShift(next, n - 1)

\* FramerRTU.crc16_table
crc16_table == [i \in 0..255 |-> CrcShift(i, 8)]

\* crc = ((crc >> 8) & 0xFF) ^ crc16_table[(crc ^ byte) & 0xFF]
CrcStep(crc, byte) ==
    LET idx == crc16_table[XorByte[crc % 256][byte]]
    IN  (idx \div 256) * 256 + XorByte[crc \div 256][idx % 256]

\* the loop of compute_CRC from byte i on.  The register is evaluated before
\* the next turn (it stays within 16 bits), which keeps the evaluation flat.
RECURSIVE CrcFold(_, _, _)
CrcFold(crc, data, i) ==
    IF i > Len(data) THEN crc
    ELSE LET next == CrcStep(crc, data[i])
         IN  IF next < 65536 THEN CrcFold(next, data, i + 1) ELSE next % 65536

_crc16(data) ==
    LET crc == CrcFold(65535, data, 1)
    IN  (crc % 256) * 256 + (crc \div 256)

(***************************************************************************)
(* discovery.py: DiscoveryRequest and DiscoveryReply                       *)
(***************************************************************************)
NoMsg == [kind |-> "none"]

\* IPv4Address.packed: the address as 4 bytes, big-endian
Packed(addr) == ToBytesBig(addr[1], 2) \o ToBytesBig(addr[2], 2)

\* IPv4Address(b) of 4 bytes
IPv4Address(b) == <<FromBytesBig(Slice(b, 0, 2)), FromBytesBig(Slice(b, 2, 4))>>

Ok(v) == [ok |-> TRUE, err |-> "", value |-> v]
Err(e) == [ok |-> FALSE, err |-> e, value |-> NoMsg]

\* The encoders below differ from the code in one plausible slip each.
RequestEncodeCrcBig(msg) ==
    LET b1 == SetSlice(Zeros(REQUEST_LENGTH), 2, 4, ToBytesBig(msg.device_id, 2))
        name_bytes == device_name(msg.device_id)
        b2 == SetSlice(b1, 4, 4 + Len(name_bytes), name_bytes)
        crc == _crc16(SliceFrom(b2, 2))
    IN  SetSlice(b2, 0, 2, ToBytesBig(crc, 2))

ReplyEncodeFwLittle(msg) ==
    LET b1 == SetSlice(Zeros(REPLY_LENGTH), 2, 4, ToBytesBig(msg.device_id, 2))
        b2 == SetSlice(b1, 4, 8, Packed(msg.addr))
        b3 == SetSlice(b2, 8, 24, LJust(msg.serial_number, 16))
        b4 == SetSlice(b3, 24, 26, ToBytesLittle(msg.firmware_version, 2))
        b5 == [b4 EXCEPT ![27] = msg.elwa_number]
        crc == _crc16(SliceFrom(b5, 2))
    IN  SetSlice(b5, 0, 2, ToBytesLittle(crc, 2))

\* DiscoveryRequest.encode
RequestEncode(msg) ==
    LET b1 == SetSlice(Zeros(REQUEST_LENGTH), 2, 4, ToBytesBig(msg.device_id, 2))
        name_bytes == device_name(msg.device_id)
        b2 == SetSlice(b1, 4, 4 + Len(name_bytes), name_bytes)
        crc == _crc16(SliceFrom(b2, 2))
    IN  SetSlice(b2, 0, 2, ToBytesLittle(crc, 2))

\* DiscoveryReply.encode
ReplyEncode(msg) ==
    LET b1 == SetSlice(Zeros(REPLY_LENGTH), 2, 4, ToBytesBig(msg.device_id, 2))
        b2 == SetSlice(b1, 4, 8, Packed(msg.addr))
        b3 == SetSlice(b2, 8, 24, LJust(msg.serial_number, 16))
        b4 == SetSlice(b3, 24, 26, ToBytesBig(msg.firmware_version, 2))
        b5 == [b4 EXCEPT ![27] = msg.elwa_number]
        crc == _crc16(SliceFrom(b5, 2))
    IN  SetSlice(b5, 0, 2, ToBytesLittle(crc, 2))

\* The decoders below differ from the code in one plausible slip each.
ReplyDecodeNoCrc(data) ==
    IF Len(data) # REPLY_LENGTH THEN Err("InvalidLength")
    ELSE LET dev_id == FromBytesBig(Slice(data, 2, 4))
             ip == IPv4Address(Slice(data, 4, 8))
             sn == Slice(data, 8, 24)
             firmware_version == FromBytesBig(Slice(data, 24, 26))
             elwa_number == data[27]
         IN  IF ~IsAscii(sn) THEN Err("UnicodeDecodeError")
             ELSE IF dev_id \notin DeviceIdentification THEN Err("UnknownDeviceId")
             ELSE Ok([kind |-> "reply", device_id |-> dev_id, addr |-> ip,
                      serial_number |-> RStripNul(sn),
                      firmware_version |-> firmware_version,
                      elwa_number |-> elwa_number])

RequestDecodeIdFirst(data) ==
    IF Len(data) # REQUEST_LENGTH THEN Err("InvalidLength")
    ELSE LET dev_id == FromBytesBig(Slice(data, 2, 4))
         IN  IF dev_id \notin DeviceIdentification THEN Err("UnknownDeviceId")
             ELSE IF FromBytesLittle(Slice(data, 0, 2)) # _crc16(SliceFrom(data, 2))
             THEN Err("ChecksumMismatch")
             ELSE Ok([kind |-> "request", device_id |-> dev_id])

\* DiscoveryRequest.decode
RequestDecode(data) ==
    IF Len(data) # REQUEST_LENGTH THEN Err("InvalidLength")
    ELSE IF FromBytesLittle(Slice(data, 0, 2)) # _crc16(SliceFrom(data, 2))
    THEN Err("ChecksumMismatch")
    ELSE LET dev_id == FromBytesBig(Slice(data, 2, 4))
         IN  IF dev_id \notin DeviceIdentification THEN Err("UnknownDeviceId")
             ELSE Ok([kind |-> "request", device_id |-> dev_id])

\* DiscoveryReply.decode.  The fields are read in the order of the source: the
\* serial number is decoded as ASCII before DeviceIdentification(dev_id) is built.
ReplyDecode(data) ==
    IF Len(data) # REPLY_LENGTH THEN Err("InvalidLength")
    ELSE IF FromBytesLittle(Slice(data, 0, 2)) # _crc16(SliceFrom(data, 2))
    THEN Err("ChecksumMismatch")
    ELSE LET dev_id == FromBytesBig(Slice(data, 2, 4))
             ip == IPv4Address(Slice(data, 4, 8))
             sn == Slice(data, 8, 24)
             firmware_version == FromBytesBig(Slice(data, 24, 26))
             elwa_number == data[27]
         IN  IF ~IsAscii(sn) THEN Err("UnicodeDecodeError")
             ELSE IF dev_id \notin DeviceIdentification THEN Err("UnknownDeviceId")
             ELSE Ok([kind |-> "reply", device_id |-> dev_id, addr |-> ip,
                      serial_number |-> RStripNul(sn),
                      firmware_version |-> firmware_version,
                      elwa_number |-> elwa_number])

Encode(msg) == IF msg.kind = "request" THEN RequestEncode(msg) ELSE ReplyEncode(msg)
Decode(kind, data) == IF kind = "request" THEN RequestDecode(data) ELSE ReplyDecode(data)
FrameLength(kind) == IF kind = "request" THEN REQUEST_LENGTH ELSE REPLY_LENGTH

(***************************************************************************)
(* The codec's inputs                                                      *)
(***************************************************************************)
\* 0.0.0.0, 127.0.0.1, 255.255.255.255
Addrs == {<<0, 0>>, <<32512, 1>>, <<65535, 65535>>}

\* "", "hello", "hi" + NUL, "a" + NUL + "b", "2001010000000000"
Serials == {<<>>, <<104, 101, 108, 108, 111>>, <<104, 105, 0>>, <<97, 0, 98>>,
            <<50, 48, 48, 49, 48, 49, 48, 48, 48, 48, 48, 48, 48, 48, 48, 48>>}

Firmwares == {10, 65535}
Elwas == {1, 255}

Reply(d, a, sn, fw, e) ==
    [kind |-> "reply", device_id |-> d, addr |-> a, serial_number |-> sn,
     firmware_version |-> fw, elwa_number |-> e]

ReplyMessages ==
    {Reply(d, a, sn, fw, e) : d \in DeviceIdentification, a \in Addrs,
                              sn \in Serials, fw \in Firmwares, e \in Elwas}

\* the replies whose frames are tampered with bit by bit
TamperMessages ==
    {Reply(AC_THOR, <<32512, 1>>, <<104, 101, 108, 108, 111>>, 10, 1),
     Reply(AC_THOR_9S, <<65535, 65535>>,
           <<50, 48, 48, 49, 48, 49, 48, 48, 48, 48, 48, 48, 48, 48, 48, 48>>, 65535, 255),
     Reply(AC_ELWA_E, <<0, 0>>, <<>>, 0, 0)}

\* A datagram of a foreign sender: `length` bytes, an identification code at
\* offset 2, `body` at offset 8, and a CRC at offset 0 that matches or not.
WireFrame(length, id, body, crc_ok) ==
    IF length < 8 + Len(body) THEN Zeros(length)
    ELSE LET b1 == SetSlice(Zeros(length), 2, 4, ToBytesBig(id, 2))
             b2 == SetSlice(b1, 8, 8 + Len(body), body)
             crc == _crc16(SliceFrom(b2, 2))
         IN  SetSlice(b2, 0, 2,
                      ToBytesLittle(IF crc_ok THEN crc ELSE (crc + 1) % 65536, 2))

WireLengths == {0, REQUEST_LENGTH - 1, REQUEST_LENGTH, REPLY_LENGTH, REPLY_LENGTH + 1}
WireIds == {AC_THOR, AC_ELWA_2, 0, 65535}
\* nothing, "h", a byte that is not ASCII
WireBodies == {<<>>, <<104>>, <<200>>}

(***************************************************************************)
(* The codec's steps                                                       *)
(***************************************************************************)
CodecInit ==
    /\ c_stage = "idle"
    /\ c_origin = "idle"
    /\ c_kind = "request"
    /\ c_msg = NoMsg
    /\ c_frame = <<>>
    /\ c_flip = <<>>
    /\ c_result = Err("")

\* DiscoveryRequest(device_id=d).encode()
EncodeRequest ==
    /\ c_stage = "idle"
    /\ \E d \in DeviceIdentification :
          /\ c_msg' = [kind |-> "request", device_id |-> d]
          /\ c_frame' = Encode([kind |-> "request", device_id |-> d])
    /\ c_kind' = "request"
    /\ c_stage' = "encoded"
    /\ UNCHANGED <<c_origin, c_flip, c_result>>
    /\ UNCHANGED non_codec_vars

\* DiscoveryReply(...).encode()
EncodeReply(messages) ==
    /\ c_stage = "idle"
    /\ \E m \in messages :
          /\ c_msg' = m
          /\ c_frame' = Encode(m)
    /\ c_kind' = "reply"
    /\ c_stage' = "encoded"
    /\ UNCHANGED <<c_origin, c_flip, c_result>>
    /\ UNCHANGED non_codec_vars

\* one bit of the encoded frame is inverted on the way
FlipBit ==
    /\ c_stage = "encoded"
    /\ \E i \in 0..(Len(c_frame) - 1), b \in 0..7 :
          /\ c_frame' = [c_frame EXCEPT ![i + 1] = ToggleBit(c_frame[i + 1], b)]
          /\ c_flip' = <<i, b>>
    /\ c_stage' = "flipped"
    /\ UNCHANGED <<c_origin, c_kind, c_msg, c_result>>
    /\ UNCHANGED non_codec_vars

\* the encoded frame loses its last byte or gains one
Resize ==
    /\ c_stage = "encoded"
    /\ \/ c_frame' = SubSeq(c_frame, 1, Len(c_frame) - 1)
       \/ c_frame' = Append(c_frame, 0)
    /\ c_stage' = "resized"
    /\ UNCHANGED <<c_origin, c_kind, c_msg, c_flip, c_result>>
    /\ UNCHANGED non_codec_vars

\* a datagram of a foreign sender arrives
Receive ==
    /\ c_stage = "idle"
    /\ \E n \in WireLengths, id \in WireIds, body \in WireBodies, crc_ok \in BOOLEAN :
          c_frame' = WireFrame(n, id, body, crc_ok)
    /\ c_kind' \in {"request", "reply"}
    /\ c_stage' = "crafted"
    /\ UNCHANGED <<c_origin, c_msg, c_flip, c_result>>
    /\ UNCHANGED non_codec_vars

\* DiscoveryRequest.decode(frame) or DiscoveryReply.decode(frame)
DecodeFrame ==
    /\ c_stage \in {"encoded", "flipped", "resized", "crafted"}
    /\ c_result' = Decode(c_kind, c_frame)
    /\ c_origin' = c_stage
    /\ c_stage' = "decoded"
    /\ UNCHANGED <<c_kind, c_msg, c_frame, c_flip>>
    /\ UNCHANGED non_codec_vars

(***************************************************************************)
(* acthor/_registers.py: register addresses                                *)
(***************************************************************************)
RANGE_START == 1000
RANGE_STOP == 1089
REG_CONTROL_FW_VERSION == 1016
REG_CONTROL_FW_SUB_VERSION == 1028
REG_SERIAL_NUMBER_START == 1018
REG_SERIAL_NUMBER_STOP == 1026
REG_BOOST_TIME_1_START == 1007
REG_BOOST_TIME_2_START == 1026
REG_BOOST_MODE == 1005
REG_POWER == 1000
REG_POWER_32_HIGH == 1078
REG_LEGIONELLA_INTERVAL == 1053
REG_DEVICE_STATE == 1081

\* REG_HOT_WATER_MAP: unit -> <<min_temp register, max_temp register>>
REG_HOT_WATER_MAP(unit) ==
    CASE unit = 1 -> <<1006, 1002>>
      [] unit = 2 -> <<1039, 1037>>
      [] unit = 3 -> <<1040, 1038>>

\* len(Registers(...)): the size of the store
StoreLength == RANGE_STOP - RANGE_START

(***************************************************************************)
(* discovery.py: DeviceType                                                *)
(***************************************************************************)
ACTHOR_9S == <<50, 48, 48, 51, 48, 48>>

\* the model codes of DeviceType, as ASCII
DeviceType ==
    {ACTHOR_9S,
     <<50, 48, 48, 49, 48, 48>>, <<50, 48, 48, 49, 48, 51>>, <<50, 48, 48, 49, 48, 49>>,
     <<49, 54, 48, 49, 53, 48>>, <<49, 54, 48, 49, 53, 49>>, <<49, 54, 48, 49, 53, 50>>,
     <<49, 54, 48, 49, 50, 52>>, <<49, 54, 48, 49, 52, 48>>, <<49, 54, 48, 49, 50, 57>>,
     <<49, 54, 48, 49, 52, 50>>, <<49, 52, 48, 49, 48, 48>>}

\* DeviceType.from_serial_number: cls(sn[:6]), a ValueError for an unknown code
from_serial_number(sn) ==
    LET code == Slice(sn, 0, 6)
    IN  IF code \in DeviceType THEN Ok(code) ELSE Err("ValueError")

(***************************************************************************)
(* acthor/_features.py: DeviceFeatures                                     *)
(***************************************************************************)
\* A ControlFirmwareVersion comparison that orders by sub_version first
FwGeSubFirst(a, b) == a[2] > b[2] \/ (a[2] = b[2] /\ a[1] >= b[1])

\* ControlFirmwareVersion.__ge__ (dataclass order=True): (version, sub_version)
\* compared as tuples
FwGe(a, b) == a[1] > b[1] \/ (a[1] = b[1] /\ a[2] >= b[2])

\* no DeviceFeatures yet: the session object is not built
NoFeatures ==
    [readable_registers |-> 0, temperature_sensors |-> 0, water_heating_units |-> 0,
     has_load_state_outputs |-> FALSE, has_three_phases |-> FALSE,
     has_max_power_abs |-> FALSE, has_power_outputs |-> FALSE,
     has_power_with_relays |-> FALSE, has_device_powers |-> FALSE,
     has_pwm_out |-> FALSE, has_meter_power_32 |-> FALSE]

\* DeviceFeatures.all
FeaturesAll ==
    [readable_registers |-> RANGE_STOP - RANGE_START, temperature_sensors |-> 8,
     water_heating_units |-> 3,
     has_load_state_outputs |-> TRUE, has_three_phases |-> TRUE,
     has_max_power_abs |-> TRUE, has_power_outputs |-> TRUE,
     has_power_with_relays |-> TRUE, has_device_powers |-> TRUE,
     has_pwm_out |-> TRUE, has_meter_power_32 |-> TRUE]

\* A _build that lowers readable_registers for version 101 and below
BuildUpTo101(fw_version, is_9s) ==
    [readable_registers |->
        IF fw_version[1] <= 101 THEN 81 ELSE RANGE_STOP - RANGE_START,
     temperature_sensors |-> 4,
     water_heating_units |-> 1,
     has_load_state_outputs |-> FwGe(fw_version, <<202, 1>>),
     has_three_phases |-> is_9s,
     has_max_power_abs |-> FwGe(fw_version, <<102, 5>>),
     has_power_outputs |-> is_9s,
     has_power_with_relays |-> is_9s,
     has_device_powers |-> FwGe(fw_version, <<203, 3>>),
     has_pwm_out |-> FwGe(fw_version, <<205, 0>>),
     has_meter_power_32 |-> FwGe(fw_version, <<210, 2>>)]

\* DeviceFeatures._build
Build(fw_version, is_9s) ==
    [readable_registers |->
        IF fw_version[1] = 101 THEN 81 ELSE RANGE_STOP - RANGE_START,
     temperature_sensors |-> 4,
     water_heating_units |-> 1,
     has_load_state_outputs |-> FwGe(fw_version, <<202, 1>>),
     has_three_phases |-> is_9s,
     has_max_power_abs |-> FwGe(fw_version, <<102, 5>>),
     has_power_outputs |-> is_9s,
     has_power_with_relays |-> is_9s,
     has_device_powers |-> FwGe(fw_version, <<203, 3>>),
     has_pwm_out |-> FwGe(fw_version, <<205, 0>>),
     has_meter_power_32 |-> FwGe(fw_version, <<210, 2>>)]

\* b"".join(reg.to_bytes(2, "big") for reg in regs)
RECURSIVE JoinRegisters(_)
JoinRegisters(regs) ==
    IF Len(regs) = 0 THEN <<>>
    ELSE ToBytesBig(regs[1], 2) \o JoinRegisters(SubSeq(regs, 2, Len(regs)))

\* DeviceFeatures.read, from the registers the identification read returned:
\* the DeviceFeatures, or the exception raised
FeaturesRead(registers) ==
    LET sn_start == REG_SERIAL_NUMBER_START - REG_CONTROL_FW_VERSION
        sn_end == REG_SERIAL_NUMBER_STOP - REG_CONTROL_FW_VERSION
        sn_bytes == JoinRegisters(Slice(registers, sn_start, sn_end))
        device_type == from_serial_number(sn_bytes)
        is_9s == IF device_type.ok THEN device_type.value = ACTHOR_9S ELSE FALSE
        sub == REG_CONTROL_FW_SUB_VERSION - REG_CONTROL_FW_VERSION
    IN  IF ~IsAscii(sn_bytes) THEN [ok |-> FALSE, err |-> "UnicodeDecodeError",
                                    features |-> NoFeatures]
        ELSE IF Len(registers) <= sub THEN [ok |-> FALSE, err |-> "IndexError",
                                            features |-> NoFeatures]
        ELSE [ok |-> TRUE, err |-> "",
              features |-> Build(<<registers[1], registers[sub + 1]>>, is_9s)]

(***************************************************************************)
(* acthor/_registers.py: Registers                                         *)
(***************************************************************************)
\* the views of Registers: its properties, in the order of the class body
Views ==
    <<"power", "power_32", "power_with_relays", "device_power_total",
      "device_power_solar", "device_power_grid", "max_power", "max_power_abs",
      "temperatures", "hot_water_1_temperature_range",
      "hot_water_2_temperature_range", "hot_water_3_temperature_range",
      "room_heating_1", "room_heating_2", "room_heating_3", "status",
      "power_timeout", "boost_mode", "boost_time_1", "boost_time_2",
      "boost_active", "time", "night", "dst_correction", "device_number",
      "temperature_chip", "control_firmware_version",
      "control_firmware_update_status", "ps_firmware_version", "serial_number",
      "legionella", "stratification_flag", "relay_1_status", "load_state",
      "load_nominal_power", "phase_voltages", "phase_currents", "output_voltage",
      "output_powers", "frequency", "operation_mode", "operation_state",
      "meter_power", "meter_power_32", "control_type", "device_state", "pwm_out">>

ViewSet == {Views[i] : i \in 1..Len(Views)}

\* A has_register whose device_state check compares the wrong way round
has_register_flipped(f, register) ==
    CASE register = "hot_water_2_temperature_range" -> f.water_heating_units >= 2
      [] register = "hot_water_3_temperature_range" -> f.water_heating_units >= 3
      [] register = "max_power_abs" -> f.has_max_power_abs
      [] register = "output_powers" -> f.has_power_outputs
      [] register = "power_with_relays" -> f.has_power_with_relays
      [] register = "device_state" -> f.readable_registers <= 82
      [] register \in {"device_power_total", "device_power_solar",
                       "device_power_grid"} -> f.has_device_powers
      [] register = "pwm_out" -> f.has_pwm_out
      [] register = "meter_power_32" -> f.has_meter_power_32
      [] OTHER -> TRUE

\* Registers.has_register with _REGISTER_CHECKS, for a view of the class
has_register(f, register) ==
    CASE register = "hot_water_2_temperature_range" -> f.water_heating_units >= 2
      [] register = "hot_water_3_temperature_range" -> f.water_heating_units >= 3
      [] register = "max_power_abs" -> f.has_max_power_abs
      [] register = "output_powers" -> f.has_power_outputs
      [] register = "power_with_relays" -> f.has_power_with_relays
      [] register = "device_state" -> f.readable_registers >= 82
      [] register \in {"device_power_total", "device_power_solar",
                       "device_power_grid"} -> f.has_device_powers
      [] register = "pwm_out" -> f.has_pwm_out
      [] register = "meter_power_32" -> f.has_meter_power_32
      [] OTHER -> TRUE

\* whether the getter of a view returns on a store holding `store`, rather
\* than raising: the enum conversions, the time zone table and the time, the
\* ASCII decode of the serial number
Decodes(view, store) ==
    CASE view = "boost_mode" -> store[6] \in {0, 1, 3}
      [] view = "time" ->
            store[52] < 38 /\ store[10] < 24 /\ store[11] < 60 /\ store[12] < 60
      [] view = "control_firmware_update_status" -> store[30] \in {0, 1, 2, 3, 4, 5, 10}
      [] view = "serial_number" -> \A i \in 19..26 : store[i] % 256 < 128 /\ store[i] < 32768
      [] view = "operation_mode" -> store[66] \in 1..8
      [] view = "operation_state" -> store[78] \in 0..5
      [] OTHER -> TRUE

\* Registers.to_dict on a store of capability set f: the keys of the
\* dictionary, or the exception a getter raised
to_dict(f, store) ==
    LET keys == {key \in ViewSet : has_register(f, key)}
    IN  IF \A key \in keys : Decodes(key, store)
        THEN [ok |-> TRUE, err |-> "", keys |-> keys]
        ELSE [ok |-> FALSE, err |-> "ValueError", keys |-> {}]

\* list[start:stop:step] for start, stop that are None (<<>>) or not negative
PySlice(list, start, stop, step) ==
    LET n == Len(list)
        Clamp(x, hi) == IF x > hi THEN hi ELSE x
        st == IF step = <<>> THEN 1 ELSE step[1]
        lo == IF st > 0
              THEN (IF start = <<>> THEN 0 ELSE Clamp(start[1], n))
              ELSE (IF start = <<>> THEN n - 1 ELSE Clamp(start[1], n - 1))
        hi == IF st > 0
              THEN (IF stop = <<>> THEN n ELSE Clamp(stop[1], n))
              ELSE (IF stop = <<>> THEN -1 ELSE Clamp(stop[1], n - 1))
        count == IF st > 0
                 THEN (IF hi > lo THEN (hi - lo + st - 1) \div st ELSE 0)
                 ELSE (IF lo > hi THEN (lo - hi - st - 1) \div (-st) ELSE 0)
    IN  [k \in 1..count |-> list[lo + (k - 1) * st + 1]]

\* Registers.__getitem__ for an int address
GetItem(store, address) ==
    IF ~(RANGE_START <= address /\ address < RANGE_STOP)
    THEN [ok |-> FALSE, err |-> "IndexError", value |-> <<>>]
    ELSE [ok |-> TRUE, err |-> "", value |-> <<store[address - RANGE_START + 1]>>]

\* Registers.__getitem__ for a slice; start, stop and step are None (<<>>) or
\* given (<<x>>)
GetSlice(store, start, stop, step) ==
    IF start # <<>> /\ ~(RANGE_START <= start[1] /\ start[1] < RANGE_STOP)
    THEN [ok |-> FALSE, err |-> "IndexError", value |-> <<>>]
    ELSE IF stop # <<>> /\ ~(RANGE_START <= stop[1])
    THEN [ok |-> FALSE, err |-> "IndexError", value |-> <<>>]
    ELSE IF step # <<>> /\ step[1] = 0
    THEN [ok |-> FALSE, err |-> "ValueError", value |-> <<>>]
    ELSE [ok |-> TRUE, err |-> "",
          value |-> PySlice(store,
                            IF start = <<>> THEN <<>> ELSE <<start[1] - RANGE_START>>,
                            IF stop = <<>> THEN <<>> ELSE <<stop[1] - RANGE_START>>,
                            step)]

\* Quirks.register_count
register_count(fw_version) == IF fw_version[1] = 101 THEN 81 ELSE 89

\* A set_values that overwrites only the leading slots of the store
SetValuesPartial(old, new) ==
    IF Len(new) # Len(old) THEN [ok |-> FALSE, err |-> "LengthMismatch", values |-> old]
    ELSE [ok |-> TRUE, err |-> "",
          values |-> [i \in 1..Len(old) |-> IF i <= 40 THEN new[i] ELSE old[i]]]

\* A set_values without its length check
SetValuesUnchecked(old, new) == [ok |-> TRUE, err |-> "", values |-> new]

\* A set_values that stores what fits of a list of another length
SetValuesFitting(old, new) ==
    [ok |-> TRUE, err |-> "",
     values |-> [i \in 1..Len(old) |-> IF i <= Len(new) THEN new[i] ELSE 0]]

\* Registers.set_values on a store holding `old`: the outcome and the store after it
SetValues(old, new) ==
    IF Len(new) # Len(old) THEN [ok |-> FALSE, err |-> "LengthMismatch", values |-> old]
    ELSE [ok |-> TRUE, err |-> "", values |-> new]

(***************************************************************************)
(* The transport and the device behind it                                  *)
(***************************************************************************)
MaxTasks == 2
MaxReads == 3

Tasks == 1..MaxTasks

\* serial numbers as the 8 registers 1018..1025 hold them:
\* "2001010000000000", "2003000000000000", "9999990000000000", bytes 0xFF
SerialActhor == <<12848, 12337, 12337, 12336, 12336, 12336, 12336, 12336>>
Serial9s == <<12848, 12339, 12336, 12336, 12336, 12336, 12336, 12336>>
SerialUnknown == <<14649, 14649, 14649, 12336, 12336, 12336, 12336, 12336>>
SerialNotAscii == <<65535, 65535, 65535, 65535, 65535, 65535, 65535, 65535>>

NoDevice == [fw |-> 0, sub |-> 0, sn |-> <<>>]

Devices ==
    {[fw |-> 101, sub |-> 3, sn |-> SerialActhor],
     [fw |-> 210, sub |-> 2, sn |-> Serial9s],
     [fw |-> 205, sub |-> 0, sn |-> SerialUnknown],
     [fw |-> 102, sub |-> 5, sn |-> SerialNotAscii]}

\* the registers 1016..1028 of a device
IdentWindow(d) == <<d.fw, 0>> \o d.sn \o <<0, 0, d.sub>>

\* what the device holds in its registers at the time of the k-th full-range
\* read (every read sees other values in every slot), cut to the count returned
ReadResult(k, count) == [i \in 1..count |-> 100 * k + i]

\* the numbers of registers a response may carry when n were asked for
ReturnCounts(n) == {0, n - 1, n, n + 1}

(***************************************************************************)
(* acthor/_acthor.py: ActhorModbusClient, connecting and refreshing        *)
(***************************************************************************)
NoCall == [op |-> "none", args |-> <<>>, sv |-> <<>>, result |-> "", writes |-> <<>>]

Idle == [pc |-> "idle", read |-> 0]

SessionInit ==
    /\ phase = "Disconnected"
    /\ client_kind = "base"
    /\ transport_open = FALSE
    /\ device = NoDevice
    /\ features = NoFeatures
    /\ _registers = 0
    /\ values = <<>>
    /\ tasks = [t \in Tasks |-> Idle]
    /\ reads = 0
    /\ requests = <<>>
    /\ call = NoCall

\* update_registers, its read_holding_registers call: <<address, count>>
ReadRequest(f) == <<RANGE_START, f.readable_registers>>

\* An update_registers that pads in front of the registers read
PaddedFront(registers, read_count, store_len) ==
    IF store_len - read_count > 0
    THEN Zeros(store_len - read_count) \o registers
    ELSE registers

\* update_registers after its read returned `registers`: the list handed to
\* set_values
Padded(registers, read_count, store_len) ==
    IF store_len - read_count > 0
    THEN registers \o Zeros(store_len - read_count)
    ELSE registers

\* from_modbus, its except clause: the transport after it
ExceptClose(kind, open) == IF kind = "base" THEN FALSE ELSE open

\* from_modbus fails with `err`
Raise(op, err) ==
    /\ transport_open' = ExceptClose(client_kind, transport_open)
    /\ phase' = "Failed"
    /\ call' = [NoCall EXCEPT !.op = op, !.result = err]

\* ActhorModbusClient.connect: the client is created
Connect ==
    /\ phase = "Disconnected"
    /\ phase' = "Connecting"
    /\ client_kind' = "base"
    /\ device' \in Devices
    /\ UNCHANGED <<transport_open, features, _registers, values, tasks, reads, requests, call>>
    /\ UNCHANGED non_session_vars

\* ActhorModbusClient.connect: `await client.connect()` returns, connected or
\* not, or raises
ConnectReturn ==
    /\ phase = "Connecting"
    /\ \/ /\ transport_open' \in BOOLEAN
          /\ phase' = "Identifying"
          /\ UNCHANGED call
       \/ /\ transport_open' = FALSE
          /\ phase' = "Failed"
          /\ call' = [NoCall EXCEPT !.op = "connect", !.result = "ConnectionError"]
    /\ UNCHANGED <<client_kind, device, features, _registers, values, tasks, reads, requests>>
    /\ UNCHANGED non_session_vars

\* ActhorModbusClient.from_modbus is called with a connected client
FromModbus ==
    /\ phase = "Disconnected"
    /\ phase' = "Identifying"
    /\ client_kind' \in {"base", "mixin"}
    /\ transport_open' = TRUE
    /\ device' \in Devices
    /\ UNCHANGED <<features, _registers, values, tasks, reads, requests, call>>
    /\ UNCHANGED non_session_vars

\* from_modbus: DeviceFeatures.read returns or raises; on success the session
\* object is built and update_registers issues the first read
Identify ==
    /\ phase = "Identifying"
    /\ \/ /\ Raise("from_modbus", "TransportError")
          /\ UNCHANGED <<features, _registers, values, reads, requests>>
       \/ /\ transport_open
          /\ \E registers \in {IdentWindow(device), <<>>} :
                LET r == FeaturesRead(registers)
                IN  IF r.ok
                    THEN /\ features' = r.features
                         /\ _registers' = 1
                         /\ values' = Zeros(StoreLength)
                         /\ reads' = 1
                         /\ requests' = <<ReadRequest(r.features)>>
                         /\ phase' = "Refreshing"
                         /\ UNCHANGED <<transport_open, call>>
                    ELSE /\ Raise("from_modbus", r.err)
                         /\ UNCHANGED <<features, _registers, values, reads, requests>>
    /\ UNCHANGED <<client_kind, device, tasks>>
    /\ UNCHANGED non_session_vars

\* A from_modbus that returns the session whatever update_registers did
from_modbus_swallowed(refreshed) == "Ready"

\* from_modbus after `await acthor.update_registers()`: it returns the
\* session, or its except clause raises again
from_modbus_outcome(refreshed) == IF refreshed THEN "Ready" ELSE "Failed"

\* from_modbus: the first update_registers returns or raises
FirstRefresh ==
    /\ phase = "Refreshing"
    /\ \/ /\ Raise("from_modbus", "TransportError")
          /\ UNCHANGED values
       \/ \E n \in ReturnCounts(features.readable_registers) :
             LET list == Padded(ReadResult(1, n), features.readable_registers,
                                Len(values))
                 r == SetValues(values, list)
             IN  IF r.ok
                 THEN /\ values' = r.values
                      /\ phase' = from_modbus_outcome(TRUE)
                      /\ call' = [NoCall EXCEPT !.op = "from_modbus",
                                                !.args = <<1, n>>,
                                                !.sv = <<Len(list)>>,
                                                !.result = "ok"]
                      /\ UNCHANGED transport_open
                 ELSE /\ transport_open' = ExceptClose(client_kind, transport_open)
                      /\ phase' = from_modbus_outcome(FALSE)
                      /\ call' = [NoCall EXCEPT !.op = "from_modbus",
                                                !.args = <<1, n>>,
                                                !.sv = <<Len(list)>>,
                                                !.result = r.err]
                      /\ values' = r.values
    /\ UNCHANGED <<client_kind, device, features, _registers, tasks, reads, requests>>
    /\ UNCHANGED non_session_vars

\* update_registers, up to its await: the read is issued
UpdateStart(t) ==
    /\ phase = "Ready"
    /\ tasks[t].pc = "idle"
    /\ reads < MaxReads
    /\ reads' = reads + 1
    /\ requests' = Append(requests, ReadRequest(features))
    /\ tasks' = [tasks EXCEPT ![t] = [pc |-> "await", read |-> reads + 1]]
    /\ UNCHANGED <<phase, client_kind, transport_open, device, features, _registers, values, call>>
    /\ UNCHANGED non_session_vars

\* update_registers, from its await on: the read raises, or it returns and
\* the padded list is handed to set_values
UpdateFinish(t) ==
    /\ phase = "Ready"
    /\ tasks[t].pc = "await"
    /\ tasks' = [tasks EXCEPT ![t] = Idle]
    /\ \/ /\ call' = [NoCall EXCEPT !.op = "update_registers",
                                    !.args = <<tasks[t].read>>,
                                    !.result = "TransportError"]
          /\ UNCHANGED values
       \/ \E n \in ReturnCounts(features.readable_registers) :
             LET list == Padded(ReadResult(tasks[t].read, n),
                                features.readable_registers, Len(values))
                 r == SetValues(values, list)
             IN  /\ values' = r.values
                 /\ call' = [NoCall EXCEPT !.op = "update_registers",
                                           !.args = <<tasks[t].read, n>>,
                                           !.sv = <<Len(list)>>,
                                           !.result = IF r.ok THEN "ok" ELSE r.err]
    /\ UNCHANGED <<phase, client_kind, transport_open, device, features, _registers, reads, requests>>
    /\ UNCHANGED non_session_vars

SessionNext ==
    \/ Connect
    \/ ConnectReturn
    \/ FromModbus
    \/ Identify
    \/ FirstRefresh
    \/ \E t \in Tasks : UpdateStart(t)
    \/ \E t \in Tasks : UpdateFinish(t)

(***************************************************************************)
(* acthor/_acthor.py: ActhorModbusClient, the write methods                *)
(*                                                                         *)
(* A write method runs as a sequence of steps over a record                *)
(* [result, writes]: result is "" while the method runs, and writes lists  *)
(* the write calls made on the client so far, each                         *)
(* <<function, address, values>>.  fail_at is the number of the write call *)
(* the transport fails (0: none).                                          *)
(***************************************************************************)
MaxFailAt == 3

_HW_TEMP_MIN == 50
_HW_TEMP_MAX == 900

Running == [result |-> "", writes |-> <<>>]

\* await self._client.write_register(s) (...): the call is made, and raises
\* when the transport fails it
Write(st, fn, address, vals, fail_at) ==
    IF st.result # "" THEN st
    ELSE [result |-> IF Len(st.writes) + 1 = fail_at THEN "TransportError" ELSE "",
          writes |-> Append(st.writes, <<fn, address, vals>>)]

\* a raise
Fail(st, err) == IF st.result # "" THEN st ELSE [st EXCEPT !.result = err]

\* the method returns
Return(st) == IF st.result # "" THEN st ELSE [st EXCEPT !.result = "ok"]

\* the registers of the device after the writes of a call, from `image`
RECURSIVE Written(_, _)
Written(image, writes) ==
    IF writes = <<>> THEN image
    ELSE LET w == Head(writes)
             at == w[2] - RANGE_START
         IN  Written(SetSlice(image, at, at + Len(w[3]), w[3]), Tail(writes))

\* A session that mirrors what it wrote in its store
AfterWritesMirrored(store, writes) == Written(store, writes)

\* the store of the session after a write method: the write methods do not
\* update the internal state
AfterWrites(store, writes) == store

\* set_boost_config.write_boost_time_config, for an argument that may be None
write_boost_time_config(st, start_reg, boost_time, fail_at) ==
    IF boost_time = <<>> THEN st
    ELSE IF ~(0 <= boost_time[1] /\ boost_time[1] <= 23) THEN Fail(st, "ValueOutOfBounds")
    ELSE IF ~(0 <= boost_time[2] /\ boost_time[2] <= 24) THEN Fail(st, "ValueOutOfBounds")
    ELSE Write(st, "write_registers", start_reg, boost_time, fail_at)

\* ActhorModbusClient.set_boost_config
set_boost_config(boost_time_1, boost_time_2, boost_mode, fail_at) ==
    LET s1 == write_boost_time_config(Running, REG_BOOST_TIME_1_START, boost_time_1, fail_at)
        s2 == write_boost_time_config(s1, REG_BOOST_TIME_2_START, boost_time_2, fail_at)
        s3 == IF boost_mode = <<>> THEN s2
              ELSE Write(s2, "write_register", REG_BOOST_MODE, boost_mode, fail_at)
    IN  Return(s3)

\* round(value, 1) of a temperature given in hundredths of a degree, in tenths
\* (a tie goes to the even tenth)
Round1(v) ==
    LET q == v \div 10
        r == v % 10
    IN  IF r < 5 THEN q
        ELSE IF r > 5 THEN q + 1
        ELSE IF q % 2 = 0 THEN q ELSE q + 1

\* set_hot_water_config, one turn of its loop
hot_water_step(st, reg, value, fail_at) ==
    IF value = <<>> THEN st
    ELSE LET rounded_value == Round1(value[1])
         IN  IF ~(_HW_TEMP_MIN <= rounded_value /\ rounded_value <= _HW_TEMP_MAX)
             THEN Fail(st, "ValueOutOfBounds")
             ELSE Write(st, "write_register", reg, <<rounded_value>>, fail_at)

\* ActhorModbusClient.set_hot_water_config
set_hot_water_config(f, min_temp, max_temp, unit, fail_at) ==
    IF unit > f.water_heating_units THEN Fail(Running, "UnitNotAvailable")
    ELSE LET min_reg == REG_HOT_WATER_MAP(unit)[1]
             max_reg == REG_HOT_WATER_MAP(unit)[2]
             s1 == hot_water_step(Running, max_reg, max_temp, fail_at)
             s2 == hot_water_step(s1, min_reg, min_temp, fail_at)
         IN  Return(s2)

\* int(state) of a bool
BoolInt(b) == IF b THEN 1 ELSE 0

\* A set_device_state that writes without asking has_register
set_device_state_unguarded(f, state, fail_at) ==
    Return(Write(Running, "write_register", REG_DEVICE_STATE, <<BoolInt(state)>>, fail_at))

\* ActhorModbusClient.set_device_state
set_device_state(f, state, fail_at) ==
    IF ~has_register(f, "device_state") THEN Fail(Running, "UnsupportedOnDevice")
    ELSE Return(Write(Running, "write_register", REG_DEVICE_STATE,
                      <<BoolInt(state)>>, fail_at))

\* A Python int too wide for one machine word is kept as <<p >> 16, p & 0xFFFF>>:
\* the second part is in 0..65535, the first is any integer (negative for a
\* negative p)
Wide(n) == <<n \div 65536, n % 65536>>
WideLe(a, b) == a[1] < b[1] \/ (a[1] = b[1] /\ a[2] <= b[2])

\* A set_power that writes the two halves low word first
set_power_low_first(power, fail_at) ==
    IF ~(WideLe(Wide(0), power) /\ WideLe(power, <<65535, 65535>>))
    THEN Fail(Running, "ValueOutOfBounds")
    ELSE IF ~WideLe(power, Wide(65535))
    THEN Return(Write(Running, "write_registers", REG_POWER_32_HIGH,
                      <<power[2], power[1]>>, fail_at))
    ELSE Return(Write(Running, "write_register", REG_POWER, <<power[2]>>, fail_at))

\* ActhorModbusClient.set_power
set_power(power, fail_at) ==
    IF ~(WideLe(Wide(0), power) /\ WideLe(power, <<65535, 65535>>))
    THEN Fail(Running, "ValueOutOfBounds")
    ELSE IF ~WideLe(power, Wide(65535))
    THEN Return(Write(Running, "write_registers", REG_POWER_32_HIGH,
                      <<power[1], power[2]>>, fail_at))
    ELSE Return(Write(Running, "write_register", REG_POWER, <<power[2]>>, fail_at))

\* Registers.power_32 of a store of 16-bit registers: _values[78] << 16 |
\* _values[79]
power_32(store) == <<store[79], store[80]>>

\* itertools.groupby(enumerate(values), lambda x: x[1] is None): where the
\* group that starts at index i (0-based) stops
RECURSIVE GroupEnd(_, _)
GroupEnd(vals, i) ==
    IF i + 1 >= Len(vals) THEN Len(vals)
    ELSE IF (vals[i + 2] = <<>>) # (vals[i + 1] = <<>>) THEN i + 1
    ELSE GroupEnd(vals, i + 1)

\* _write_registers_with_holes, its loop from the group that starts at index
\* i (0-based) on; an entry of values is <<>> for None
RECURSIVE write_groups(_, _, _, _, _)
write_groups(st, start_address, vals, i, fail_at) ==
    IF i >= Len(vals) THEN st
    ELSE LET stop == GroupEnd(vals, i)
             reg_offset == i
             reg_values == [k \in 1..(stop - i) |-> vals[i + k][1]]
         IN  IF vals[i + 1] = <<>>
             THEN write_groups(st, start_address, vals, stop, fail_at)
             ELSE write_groups(Write(st, "write_registers", start_address + reg_offset,
                                     reg_values, fail_at),
                               start_address, vals, stop, fail_at)

\* A _write_registers_with_holes that counts the entries from one
write_registers_with_holes_from_one(st, start_address, vals, fail_at) ==
    write_groups(st, start_address + 1, vals, 0, fail_at)

\* ActhorModbusClient._write_registers_with_holes
_write_registers_with_holes(st, start_address, vals, fail_at) ==
    write_groups(st, start_address, vals, 0, fail_at)

\* settings.x if x is None else x, under "if settings is not None"
KwOr(settings, field, kw) ==
    IF settings # <<>> /\ kw = <<>> THEN <<settings[1][field]>> ELSE kw

\* A set_legionella_config in which the settings object wins over the
\* keyword arguments
set_legionella_config_settings_first(settings, enabled, temperature, interval_days, start_hour, fail_at) ==
    LET pick(field, kw) == IF settings # <<>> THEN <<settings[1][field]>> ELSE kw
        enabled_ == pick("enabled", enabled)
        values_ == <<pick("interval_days", interval_days),
                     pick("start_hour", start_hour),
                     pick("temperature", temperature),
                     IF enabled_ = <<TRUE>> THEN <<1>>
                     ELSE IF enabled_ = <<FALSE>> THEN <<0>> ELSE <<>> >>
    IN  Return(_write_registers_with_holes(Running, REG_LEGIONELLA_INTERVAL, values_,
                                           fail_at))

\* ActhorModbusClient.set_legionella_config
set_legionella_config(settings, enabled, temperature, interval_days, start_hour, fail_at) ==
    LET enabled_ == KwOr(settings, "enabled", enabled)
        temperature_ == KwOr(settings, "temperature", temperature)
        interval_days_ == KwOr(settings, "interval_days", interval_days)
        start_hour_ == KwOr(settings, "start_hour", start_hour)
        values_ == <<interval_days_, start_hour_, temperature_,
                     IF enabled_ = <<TRUE>> THEN <<1>>
                     ELSE IF enabled_ = <<FALSE>> THEN <<0>> ELSE <<>> >>
    IN  Return(_write_registers_with_holes(Running, REG_LEGIONELLA_INTERVAL, values_,
                                           fail_at))

\* Registers.legionella
legionella(store) ==
    [interval_days |-> store[54], start_hour |-> store[55],
     temperature |-> store[56], enabled |-> store[57] # 0]

\* the arguments the write methods are called with
BoostTimes == {<<>>, <<0, 0>>, <<23, 24>>, <<24, 0>>, <<0, 25>>}
BoostModes == {<<>>, <<1>>, <<3>>}
\* None, 4.94, 4.96, 90.04, 90.06 degrees
Temperatures == {<<>>, <<494>>, <<496>>, <<9004>>, <<9006>>}
Units == {1, 2, 3}

\* -1, 0, 0xFFFF, 0x10000, 0x10002, 0x7FFF8000, 0xFFFFFFFF, 0x100000000
Powers == {<<-1, 65535>>, Wide(0), Wide(65535), Wide(65536), <<1, 2>>,
           <<32767, 32768>>, <<65535, 65535>>, <<65536, 0>>}

\* None, or a LegionellaSettings
Legionellas == {<<>>,
                <<[enabled |-> TRUE, temperature |-> 65, interval_days |-> 7,
                   start_hour |-> 3]>>,
                <<[enabled |-> FALSE, temperature |-> 70, interval_days |-> 14,
                   start_hour |-> 22]>>}
OptBools == {<<>>, <<TRUE>>, <<FALSE>>}
LegionellaTemperatures == {<<>>, <<60>>}
IntervalDays == {<<>>, <<1>>}
StartHours == {<<>>, <<0>>}

\* the DeviceFeatures a session is built with
FeatureChoices == {Build(<<101, 3>>, FALSE), Build(<<210, 2>>, TRUE), FeaturesAll}

\* ActhorModbusClient(client, features=f): the session right after construction
WritesInit ==
    /\ phase = "Ready"
    /\ client_kind = "base"
    /\ transport_open = TRUE
    /\ device = NoDevice
    /\ features \in FeatureChoices
    /\ _registers = 1
    /\ values = Zeros(StoreLength)
    /\ tasks = [t \in Tasks |-> Idle]
    /\ reads = 0
    /\ requests = <<>>
    /\ call = NoCall

\* One call of a write method is followed per behaviour: `call` keeps it.
SetBoostConfig ==
    /\ phase = "Ready"
    /\ call.op = "none"
    /\ \E bt1 \in BoostTimes, bt2 \in BoostTimes, mode \in BoostModes, fail_at \in 0..MaxFailAt :
          LET r == set_boost_config(bt1, bt2, mode, fail_at)
          IN  /\ values' = AfterWrites(values, r.writes)
              /\ call' = [op |-> "set_boost_config", args |-> <<bt1, bt2, mode>>,
                       sv |-> <<>>, result |-> r.result, writes |-> r.writes]
    /\ UNCHANGED <<phase, client_kind, transport_open, device, features, _registers,
                   tasks, reads, requests>>
    /\ UNCHANGED non_session_vars

SetHotWaterConfig ==
    /\ phase = "Ready"
    /\ call.op = "none"
    /\ \E min_temp \in Temperatures, max_temp \in Temperatures, unit \in Units,
          fail_at \in 0..MaxFailAt :
          LET r == set_hot_water_config(features, min_temp, max_temp, unit, fail_at)
          IN  /\ values' = AfterWrites(values, r.writes)
              /\ call' = [op |-> "set_hot_water_config",
                       args |-> <<min_temp, max_temp, <<unit>>>>,
                       sv |-> <<>>, result |-> r.result, writes |-> r.writes]
    /\ UNCHANGED <<phase, client_kind, transport_open, device, features, _registers,
                   tasks, reads, requests>>
    /\ UNCHANGED non_session_vars

SetDeviceState ==
    /\ phase = "Ready"
    /\ call.op = "none"
    /\ \E state \in BOOLEAN, fail_at \in 0..MaxFailAt :
          LET r == set_device_state(features, state, fail_at)
          IN  /\ values' = AfterWrites(values, r.writes)
              /\ call' = [op |-> "set_device_state", args |-> <<state>>,
                       sv |-> <<>>, result |-> r.result, writes |-> r.writes]
    /\ UNCHANGED <<phase, client_kind, transport_open, device, features, _registers,
                   tasks, reads, requests>>
    /\ UNCHANGED non_session_vars

SetPower ==
    /\ phase = "Ready"
    /\ call.op = "none"
    /\ \E power \in Powers, fail_at \in 0..MaxFailAt :
          LET r == set_power(power, fail_at)
          IN  /\ values' = AfterWrites(values, r.writes)
              /\ call' = [op |-> "set_power", args |-> <<power>>,
                       sv |-> <<>>, result |-> r.result, writes |-> r.writes]
    /\ UNCHANGED <<phase, client_kind, transport_open, device, features, _registers,
                   tasks, reads, requests>>
    /\ UNCHANGED non_session_vars

SetLegionellaConfig ==
    /\ phase = "Ready"
    /\ call.op = "none"
    /\ \E settings \in Legionellas, enabled \in OptBools,
          temperature \in LegionellaTemperatures, interval_days \in IntervalDays,
          start_hour \in StartHours, fail_at \in 0..MaxFailAt :
          LET r == set_legionella_config(settings, enabled, temperature, interval_days,
                                         start_hour, fail_at)
          IN  /\ values' = AfterWrites(values, r.writes)
              /\ call' = [op |-> "set_legionella_config",
                       args |-> <<settings, enabled, temperature, interval_days,
                                  start_hour>>,
                       sv |-> <<>>, result |-> r.result, writes |-> r.writes]
    /\ UNCHANGED <<phase, client_kind, transport_open, device, features, _registers,
                   tasks, reads, requests>>
    /\ UNCHANGED non_session_vars

\* the registers object of the session is read: a typed view, has_register,
\* to_dict, Registers[address] or Registers[start:stop:step]
ReadRegisters ==
    /\ phase = "Ready"
    /\ call.op = "none"
    /\ \/ \E view \in ViewSet :
             call' = [NoCall EXCEPT !.op = "view", !.args = <<view>>,
                         !.result = IF Decodes(view, values) THEN "ok" ELSE "ValueError"]
       \/ \E view \in ViewSet :
             call' = [NoCall EXCEPT !.op = "has_register", !.args = <<view>>,
                         !.result = IF has_register(features, view) THEN "True"
                                    ELSE "False"]
       \/ LET r == to_dict(features, values)
          IN  call' = [NoCall EXCEPT !.op = "to_dict",
                          !.result = IF r.ok THEN "ok" ELSE r.err]
       \/ \E address \in {999, 1000, 1088, 1089} :
             LET r == GetItem(values, address)
             IN  call' = [NoCall EXCEPT !.op = "getitem", !.args = <<address>>,
                             !.sv = r.value,
                             !.result = IF r.ok THEN "ok" ELSE r.err]
       \/ \E start \in {<<>>, <<1086>>}, stop \in {<<>>, <<1088>>} :
             LET r == GetSlice(values, start, stop, <<>>)
             IN  call' = [NoCall EXCEPT !.op = "getslice", !.args = <<start, stop>>,
                             !.sv = r.value,
                             !.result = IF r.ok THEN "ok" ELSE r.err]
    /\ UNCHANGED <<phase, client_kind, transport_open, device, features, _registers, values,
                   tasks, reads, requests>>
    /\ UNCHANGED non_session_vars

\* a session some time after construction: its store holds zeros, or what
\* the last refresh read
FrameInit ==
    /\ phase = "Ready"
    /\ client_kind = "base"
    /\ transport_open = TRUE
    /\ device = NoDevice
    /\ features \in FeatureChoices
    /\ _registers = 1
    /\ values \in {Zeros(StoreLength),
                   Padded(ReadResult(1, features.readable_registers),
                          features.readable_registers, StoreLength)}
    /\ tasks = [t \in Tasks |-> Idle]
    /\ reads = 0
    /\ requests = <<>>
    /\ call = NoCall

\* the calls made on a session that is ready
FrameNext ==
    \/ SetBoostConfig
    \/ SetHotWaterConfig
    \/ SetDeviceState
    \/ SetPower
    \/ SetLegionellaConfig
    \/ ReadRegisters
    \/ \E t \in Tasks : UpdateStart(t)
    \/ \E t \in Tasks : UpdateFinish(t)

WritesNext ==
    \/ SetBoostConfig
    \/ SetHotWaterConfig
    \/ SetDeviceState
    \/ SetPower
    \/ SetLegionellaConfig

(***************************************************************************)
(* discovery.py: _Protocol, discover_with_callback, discover               *)
(*                                                                         *)
(* The event loop runs one callback at a time: the timer, a datagram, a     *)
(* transport error, connection_lost, and the generator between two awaits   *)
(* are each one step.                                                       *)
(***************************************************************************)
MaxDatagrams == 3

\* the datagrams that arrive: two replies of devices, the own request looped
\* back, a reply with a wrong CRC, with an unknown identification code, with a
\* serial number that is not ASCII, and a frame one byte too long
Datagrams ==
    <<ReplyEncode(Reply(AC_THOR, <<49320, 266>>,
                        <<50, 48, 48, 49, 48, 49, 48, 48, 48, 48, 48, 48, 48, 48, 48, 48>>,
                        10, 1)),
      ReplyEncode(Reply(AC_ELWA_2, <<49320, 267>>, <<104, 105>>, 65535, 2)),
      RequestEncode([kind |-> "request", device_id |-> AC_THOR]),
      WireFrame(REPLY_LENGTH, AC_THOR, <<104>>, FALSE),
      WireFrame(REPLY_LENGTH, 0, <<104>>, TRUE),
      WireFrame(REPLY_LENGTH, AC_THOR, <<200>>, TRUE),
      WireFrame(REPLY_LENGTH + 1, AC_THOR, <<104>>, TRUE)>>

NoDatagram == [data |-> 0, outcome |-> "none", decoded |-> FALSE, late |-> FALSE]

EmptyQueue == [items |-> <<>>, shutdown |-> FALSE]

\* A Queue.shutdown that does nothing
shutdown_noop(q) == q

\* asyncio.Queue.shutdown()
shutdown(q) == [q EXCEPT !.shutdown = TRUE]

\* A Queue.put_nowait that accepts items after shutdown
put_nowait_unchecked(q, item) ==
    [ok |-> TRUE, queue |-> [q EXCEPT !.items = Append(@, item)]]

\* asyncio.Queue.put_nowait(item): raises QueueShutDown after shutdown
put_nowait(q, item) ==
    IF q.shutdown THEN [ok |-> FALSE, queue |-> q]
    ELSE [ok |-> TRUE, queue |-> [q EXCEPT !.items = Append(@, item)]]

\* A datagram_received that tries to decode frames of the request length too
datagram_received_no_skip(data, late, cb, q) ==
    LET r == ReplyDecode(data)
    IN  IF ~r.ok THEN [outcome |-> "discarded", decoded |-> TRUE, queue |-> q]
        ELSE IF ~cb THEN [outcome |-> "dropped", decoded |-> TRUE, queue |-> q]
        ELSE LET put == put_nowait(q, [reply |-> r.value, late |-> late])
             IN  [outcome |-> IF put.ok THEN "delivered" ELSE "raised",
                  decoded |-> TRUE, queue |-> put.queue]

\* _Protocol.datagram_received with the callback of discover(); cb: whether
\* _callback is set; late: the datagram arrived after the window expired.
\* outcome: "ignored" (request length), "discarded" (decode raised ValueError),
\* "dropped" (no callback), "delivered" (put on the queue), "raised"
\* (put_nowait raised QueueShutDown out of the protocol callback)
datagram_received(data, late, cb, q) ==
    IF Len(data) = REQUEST_LENGTH
    THEN [outcome |-> "ignored", decoded |-> FALSE, queue |-> q]
    ELSE LET r == ReplyDecode(data)
         IN  IF ~r.ok THEN [outcome |-> "discarded", decoded |-> TRUE, queue |-> q]
             ELSE IF ~cb THEN [outcome |-> "dropped", decoded |-> TRUE, queue |-> q]
             ELSE LET put == put_nowait(q, [reply |-> r.value, late |-> late])
                  IN  [outcome |-> IF put.ok THEN "delivered" ELSE "raised",
                       decoded |-> TRUE, queue |-> put.queue]

\* An end of stream that leaves _callback set
end_of_stream_callback_kept(cb, q, signals) ==
    IF cb THEN [callback |-> cb, queue |-> shutdown(q), signals |-> signals + 1]
    ELSE [callback |-> cb, queue |-> q, signals |-> signals]

\* connection_lost and error_received: `if cb := self._callback: cb(None);
\* self._callback = None`, with the callback of discover()
end_of_stream(cb, q, signals) ==
    IF cb THEN [callback |-> FALSE, queue |-> shutdown(q), signals |-> signals + 1]
    ELSE [callback |-> cb, queue |-> q, signals |-> signals]

ListenerInit ==
    /\ l_pc = "init"
    /\ l_socket = "none"
    /\ l_lost = FALSE
    /\ l_callback = FALSE
    /\ l_queue = EmptyQueue
    /\ l_timer = "none"
    /\ l_rx = 0
    /\ l_last = NoDatagram
    /\ l_delivered = <<>>
    /\ l_signals = 0

\* discover(), up to its first await: the queue is created and the timer set
Discover ==
    /\ l_pc = "init"
    /\ l_pc' = "entering"
    /\ l_timer' = "armed"
    /\ UNCHANGED <<l_socket, l_lost, l_callback, l_queue, l_rx, l_signals, l_last, l_delivered>>
    /\ UNCHANGED non_listener_vars

\* handle.cancel() in the finally clause of discover()
Cancelled(timer) == IF timer = "armed" THEN "cancelled" ELSE timer

\* discover_with_callback: create_datagram_endpoint returns, and discover()
\* goes on to its first queue.get(); or it raises, and discover() ends
Enter ==
    /\ l_pc = "entering"
    /\ \/ /\ l_socket' = "open"
          /\ l_callback' = TRUE
          /\ l_pc' = "get"
          /\ UNCHANGED l_timer
       \/ /\ l_pc' = "done"
          /\ l_timer' = Cancelled(l_timer)
          /\ UNCHANGED <<l_socket, l_callback>>
    /\ UNCHANGED <<l_lost, l_queue, l_rx, l_signals, l_last, l_delivered>>
    /\ UNCHANGED non_listener_vars

\* the call_later handle runs: queue.shutdown()
TimerFires ==
    /\ l_timer = "armed"
    /\ l_timer' = "fired"
    /\ l_queue' = shutdown(l_queue)
    /\ UNCHANGED <<l_pc, l_socket, l_lost, l_callback, l_rx, l_signals, l_last, l_delivered>>
    /\ UNCHANGED non_listener_vars

\* a datagram arrives at the port: the transport hands it to
\* datagram_received, or the transport is closed and nobody reads it
Arrive ==
    /\ l_socket # "none"
    /\ l_rx < MaxDatagrams
    /\ l_rx' = l_rx + 1
    /\ \E i \in 1..Len(Datagrams) :
          IF l_socket = "open"
          THEN LET late == l_timer = "fired"
                   r == datagram_received(Datagrams[i], late, l_callback, l_queue)
               IN  /\ l_queue' = r.queue
                   /\ l_last' = [data |-> i, outcome |-> r.outcome,
                                 decoded |-> r.decoded, late |-> late]
          ELSE /\ l_last' = [data |-> i, outcome |-> "unread", decoded |-> FALSE,
                             late |-> TRUE]
               /\ UNCHANGED l_queue
    /\ UNCHANGED <<l_pc, l_socket, l_lost, l_callback, l_timer, l_delivered, l_signals>>
    /\ UNCHANGED non_listener_vars

\* _Protocol.error_received
ErrorReceived ==
    /\ l_socket = "open"
    /\ l_callback
    /\ LET r == end_of_stream(l_callback, l_queue, l_signals)
       IN  /\ l_queue' = r.queue
           /\ l_callback' = r.callback
           /\ l_signals' = r.signals
    /\ UNCHANGED <<l_pc, l_socket, l_lost, l_timer, l_rx, l_last, l_delivered>>
    /\ UNCHANGED non_listener_vars

\* leaving discover_with_callback and discover(): transport.close(), which
\* schedules connection_lost, and handle.cancel()
Leave ==
    /\ l_socket' = "closed"
    /\ l_lost' = TRUE
    /\ l_timer' = Cancelled(l_timer)
    /\ l_pc' = "done"

\* discover(): `await queue.get()` returns an item, which is yielded, or raises
\* QueueShutDown, and the generator ends
ConsumerGet ==
    /\ l_pc = "get"
    /\ \/ /\ l_queue.items # <<>>
          /\ l_delivered' = Append(l_delivered, Head(l_queue.items))
          /\ l_queue' = [l_queue EXCEPT !.items = Tail(@)]
          /\ l_pc' = "yield"
          /\ UNCHANGED <<l_socket, l_lost, l_timer>>
       \/ /\ l_queue.items = <<>>
          /\ l_queue.shutdown
          /\ Leave
          /\ UNCHANGED <<l_queue, l_delivered>>
    /\ UNCHANGED <<l_callback, l_rx, l_signals, l_last>>
    /\ UNCHANGED non_listener_vars

\* the consumer asks for the next reply
ConsumerResume ==
    /\ l_pc = "yield"
    /\ l_pc' = "get"
    /\ UNCHANGED <<l_socket, l_lost, l_callback, l_queue, l_timer, l_rx, l_signals, l_last,
                   l_delivered>>
    /\ UNCHANGED non_listener_vars

\* the consumer closes the iterator, or is cancelled while it waits
ConsumerClose ==
    /\ l_pc \in {"get", "yield"}
    /\ Leave
    /\ UNCHANGED <<l_callback, l_queue, l_rx, l_signals, l_last, l_delivered>>
    /\ UNCHANGED non_listener_vars

\* _Protocol.connection_lost, after transport.close()
ConnectionLost ==
    /\ l_lost
    /\ l_lost' = FALSE
    /\ LET r == end_of_stream(l_callback, l_queue, l_signals)
       IN  /\ l_queue' = r.queue
           /\ l_callback' = r.callback
           /\ l_signals' = r.signals
    /\ UNCHANGED <<l_pc, l_socket, l_timer, l_rx, l_last, l_delivered>>
    /\ UNCHANGED non_listener_vars

DiscoverNext ==
    \/ Discover
    \/ Enter
    \/ TimerFires
    \/ Arrive
    \/ ErrorReceived
    \/ ConsumerGet
    \/ ConsumerResume
    \/ ConsumerClose
    \/ ConnectionLost

(***************************************************************************)
(* acthor/_features.py, acthor/_registers.py: functions called directly    *)
(***************************************************************************)
PureInit ==
    /\ p_op = "none"
    /\ p_in = <<>>
    /\ p_out = <<>>

\* firmware versions <<version, sub_version>> around the thresholds of _build
Versions == {100, 101, 102, 202, 203, 205, 210} \X {0, 1, 2, 3, 5}

\* DeviceFeatures._build is called for two firmware versions of one hardware
\* variant
BuildFeatures ==
    /\ p_op = "none"
    /\ \E v \in Versions, w \in Versions, is_9s \in BOOLEAN :
          /\ p_in' = [v |-> v, w |-> w, is_9s |-> is_9s]
          /\ p_out' = [v |-> Build(v, is_9s), w |-> Build(w, is_9s)]
    /\ p_op' = "build"
    /\ UNCHANGED non_pure_vars

\* serial numbers with an unknown code: NUL registers, and a byte that is
\* not ASCII after the code
SerialZero == <<0, 0, 0, 0, 0, 0, 0, 0>>
SerialLateByte == <<14649, 14649, 14649, 12336, 12336, 12336, 12336, 12543>>

ReadDevices ==
    {[fw |-> v[1], sub |-> v[2], sn |-> sn] :
        v \in {<<101, 3>>, <<102, 5>>, <<210, 2>>},
        sn \in {SerialActhor, Serial9s, SerialUnknown, SerialNotAscii, SerialZero,
                SerialLateByte}}

\* DeviceFeatures.read is called on a device
ReadFeatures ==
    /\ p_op = "none"
    /\ \E d \in ReadDevices :
          /\ p_in' = d
          /\ p_out' = FeaturesRead(IdentWindow(d))
    /\ p_op' = "read"
    /\ UNCHANGED non_pure_vars

\* a store with the given slots (offsets from RANGE_START) set, zero elsewhere
StoreWith(slots) ==
    [i \in 1..StoreLength |-> IF i - 1 \in DOMAIN slots THEN slots[i - 1] ELSE 0]

\* contents of a store: as built; after a refresh from a device in operation;
\* with an operation mode or a time zone index the device does not document
Stores ==
    {Zeros(StoreLength),
     StoreWith((5 :> 1) @@ (16 :> 101) @@ (28 :> 3) @@ (65 :> 6) @@ (77 :> 1)
               @@ [i \in 18..25 |-> 12336]),
     StoreWith((65 :> 9) @@ (77 :> 1)),
     StoreWith((51 :> 40) @@ (65 :> 1))}

CapabilitySets ==
    {FeaturesAll} \cup {Build(v, is_9s) : v \in {<<100, 0>>, <<101, 3>>, <<210, 2>>},
                                         is_9s \in BOOLEAN}

\* Registers.to_dict is called on a store
ToDict ==
    /\ p_op = "none"
    /\ \E f \in CapabilitySets, store \in Stores :
          /\ p_in' = [features |-> f, store |-> store]
          /\ p_out' = to_dict(f, store)
    /\ p_op' = "to_dict"
    /\ UNCHANGED non_pure_vars

\* the store the raw reads are made on: every slot holds another value
RawStore == ReadResult(1, StoreLength)

\* Registers[address]
GetAddress ==
    /\ p_op = "none"
    /\ \E address \in {0, 999, 1000, 1044, 1088, 1089, 2000} :
          /\ p_in' = <<address>>
          /\ p_out' = GetItem(RawStore, address)
    /\ p_op' = "getitem"
    /\ UNCHANGED non_pure_vars

SliceStarts == {<<>>, <<999>>, <<1000>>, <<1005>>, <<1088>>, <<1089>>}
SliceStops == {<<>>, <<999>>, <<1000>>, <<1010>>, <<1089>>, <<1090>>}
SliceSteps == {<<>>, <<1>>, <<3>>, <<-1>>, <<0>>}

\* Registers[start:stop:step]
GetRange ==
    /\ p_op = "none"
    /\ \E start \in SliceStarts, stop \in SliceStops, step \in SliceSteps :
          /\ p_in' = <<start, stop, step>>
          /\ p_out' = GetSlice(RawStore, start, stop, step)
    /\ p_op' = "getslice"
    /\ UNCHANGED non_pure_vars

\* the longest list handed to _write_registers_with_holes
MaxHoles == 4

\* lists of values and None
HoleLists == UNION {[1..n -> {<<>>, <<0>>, <<5>>}] : n \in 0..MaxHoles}

\* ActhorModbusClient._write_registers_with_holes is called
WriteRegistersWithHoles ==
    /\ p_op = "none"
    /\ \E start_address \in {RANGE_START, REG_LEGIONELLA_INTERVAL}, vals \in HoleLists,
          fail_at \in 0..MaxFailAt :
          /\ p_in' = <<start_address, vals, fail_at>>
          /\ p_out' = Return(_write_registers_with_holes(Running, start_address, vals,
                                                         fail_at))
    /\ p_op' = "_write_registers_with_holes"
    /\ UNCHANGED non_pure_vars

\* a & b of two k-bit integers
RECURSIVE AndBits(_, _, _)
AndBits(a, b, k) ==
    IF k = 0 THEN 0
    ELSE ((a % 2) * (b % 2)) + 2 * AndBits(a \div 2, b \div 2, k - 1)

\* PowerStageOutput(v): the member's name, or the ValueError of a value that
\* is none
PowerStageOutput(v) ==
    CASE v = 0 -> "OFF"
      [] v = 1 -> "OUT_1"
      [] v = 2 -> "OUT_2"
      [] v = 3 -> "OUT_3"
      [] OTHER -> "ValueError"

\* A PowerStage whose relay properties read each other's bit
PowerStageRelaysSwapped(r) ==
    [relay_out_2 |-> AndBits(r, Pow2(15), 16) # 0,
     relay_out_3 |-> AndBits(r, Pow2(14), 16) # 0,
     output |-> PowerStageOutput(AndBits(r, 3 * Pow2(12), 16) \div Pow2(12)),
     power |-> AndBits(r, 4095, 16)]

\* PowerStage(r): its four properties
PowerStage(r) ==
    [relay_out_2 |-> AndBits(r, Pow2(14), 16) # 0,
     relay_out_3 |-> AndBits(r, Pow2(15), 16) # 0,
     output |-> PowerStageOutput(AndBits(r, 3 * Pow2(12), 16) \div Pow2(12)),
     power |-> AndBits(r, 4095, 16)]

\* the values of a 16-bit register
RegisterValues == 0..(Pow2(16) - 1)

\* the properties of a PowerStage are read
ReadPowerStage ==
    /\ p_op = "none"
    /\ \E r \in RegisterValues :
          /\ p_in' = <<r>>
          /\ p_out' = PowerStage(r)
    /\ p_op' = "power_stage"
    /\ UNCHANGED non_pure_vars

(***************************************************************************)
(* Specifications                                                          *)
(***************************************************************************)
Init == CodecInit /\ SessionInit /\ PureInit /\ ListenerInit

\* the codec on messages and foreign datagrams
CodecNext ==
    \/ EncodeRequest
    \/ EncodeReply(ReplyMessages)
    \/ Resize
    \/ Receive
    \/ DecodeFrame

SpecCodec == Init /\ [][CodecNext]_vars

\* the codec on frames with one bit inverted
TamperNext ==
    \/ EncodeRequest
    \/ EncodeReply(TamperMessages)
    \/ FlipBit
    \/ DecodeFrame

SpecTamper == Init /\ [][TamperNext]_vars

\* the write methods of a session
InitWrites == CodecInit /\ WritesInit /\ PureInit /\ ListenerInit
SpecWrites == InitWrites /\ [][WritesNext]_vars

\* the read and write calls on a session, with refreshes in flight
InitFrame == CodecInit /\ FrameInit /\ PureInit /\ ListenerInit
SpecFrame == InitFrame /\ [][FrameNext]_vars

RegistersNext ==
    \/ BuildFeatures
    \/ ReadFeatures
    \/ ToDict
    \/ GetAddress
    \/ GetRange

\* the capability set and the register store, called directly
SpecRegisters == Init /\ [][RegistersNext]_vars

\* discover() and its consumer.  The event loop runs what is ready: the
\* timer, the endpoint creation, the wake-up of queue.get(), connection_lost;
\* the consumer keeps iterating.
SpecDiscover ==
    /\ Init
    /\ [][DiscoverNext]_vars
    /\ WF_vars(Enter)
    /\ WF_vars(TimerFires)
    /\ WF_vars(ConsumerGet)
    /\ WF_vars(ConsumerResume)
    /\ WF_vars(ConnectionLost)

\* helpers of the session and of the store, called directly
HelpersNext ==
    \/ WriteRegistersWithHoles
    \/ ReadPowerStage

SpecHelpers == Init /\ [][HelpersNext]_vars

\* a session from connect on, with overlapping refreshes
Next == SessionNext
Spec == Init /\ [][Next]_vars

(***************************************************************************)
(* Properties                                                              *)
(***************************************************************************)
\* the list handed to set_values by the last call, if any, had another length
\* than the store
Mismatched(c, store) == c.sv # <<>> /\ c.sv[1] # Len(store)

\* C1: a set_values call with a list whose length differs from the store's
\* fails with the length-mismatch error and leaves the store's values as
\* they were before the call.
C1_MismatchRejected ==
    [][(call' # call /\ Mismatched(call', values))
        => (call'.result = "LengthMismatch" /\ values' = values)]_vars

\* C1, its case: a refresh was rejected for its length on a store that held
\* the values of an earlier read
C1_Witness ==
    /\ call.op = "update_registers"
    /\ call.result = "LengthMismatch"
    /\ values # Zeros(StoreLength)

\* C2: when establishing a session fails, the transport is closed by the
\* time the error reaches the caller, whatever kind of client was passed in.
C2_NoLeak == phase = "Failed" => ~transport_open

BadBoostTime(bt) ==
    bt # <<>> /\ ~(0 <= bt[1] /\ bt[1] <= 23 /\ 0 <= bt[2] /\ bt[2] <= 24)

\* C3: a set_boost_config call with an out-of-range hour in boost_time_1 or
\* boost_time_2 fails with the value-out-of-bounds error and has issued no
\* write at all.
C3_NoWriteBeforeReject ==
    (call.op = "set_boost_config"
        /\ (BadBoostTime(call.args[1]) \/ BadBoostTime(call.args[2])))
    => (call.result = "ValueOutOfBounds" /\ call.writes = <<>>)

BadTemperature(t) ==
    t # <<>> /\ ~(_HW_TEMP_MIN <= Round1(t[1]) /\ Round1(t[1]) <= _HW_TEMP_MAX)

\* C4: a set_hot_water_config call with a temperature (rounded to one
\* decimal) outside 5.0..90.0, or with a unit beyond water_heating_units,
\* fails and has issued no write at all.
C4_NoWriteBeforeReject ==
    (call.op = "set_hot_water_config"
        /\ (\/ call.args[3][1] > features.water_heating_units
            \/ BadTemperature(call.args[1])
            \/ BadTemperature(call.args[2])))
    => (call.result \in {"ValueOutOfBounds", "UnitNotAvailable"} /\ call.writes = <<>>)

\* the frame decoded is the one encode returned
RoundTrip == c_stage = "decoded" /\ c_origin = "encoded"

NoTrailingNul(sn) == Len(sn) = 0 \/ sn[Len(sn)] # 0

\* C5, as claimed: decode(encode(x)) = x for every request and every reply
\* with in-range fields.
C5_RoundTripAnySerial == RoundTrip => (c_result.ok /\ c_result.value = c_msg)

\* C5, amended: decode(encode(x)) = x for every request, and for every reply
\* with in-range fields whose serial number does not end in a NUL character.
C5_RoundTrip ==
    (RoundTrip /\ (c_msg.kind = "reply" => NoTrailingNul(c_msg.serial_number)))
    => (c_result.ok /\ c_result.value = c_msg)

\* C5, its case: a reply with a serial number shorter than its field came back
C5_Witness ==
    /\ RoundTrip
    /\ c_msg.kind = "reply"
    /\ Len(c_msg.serial_number) = 5
    /\ c_msg.firmware_version = 10
    /\ c_result.ok

\* C6: an encoded frame with one bit inverted at a byte offset >= 2 fails to
\* decode, and with the checksum error.
C6_FlipDetected ==
    (c_stage = "decoded" /\ c_origin = "flipped" /\ c_flip[1] >= 2)
    => (~c_result.ok /\ c_result.err = "ChecksumMismatch")

\* C6, its case: the lowest bit of a reply's last field was inverted
C6_Witness ==
    /\ c_stage = "decoded"
    /\ c_origin = "flipped"
    /\ c_kind = "reply"
    /\ c_flip = <<26, 0>>
    /\ c_result.err = "ChecksumMismatch"

LengthOk == Len(c_frame) = FrameLength(c_kind)
CrcOk == FromBytesLittle(Slice(c_frame, 0, 2)) = _crc16(SliceFrom(c_frame, 2))
IdKnown == FromBytesBig(Slice(c_frame, 2, 4)) \in DeviceIdentification
SerialOk == c_kind = "reply" => IsAscii(Slice(c_frame, 8, 24))

\* C7, as claimed: decode checks the length, then the CRC, then the
\* identification code, and returns a value only when all three pass.
C7_ThreeChecks ==
    c_stage = "decoded" =>
        /\ ~LengthOk => c_result.err = "InvalidLength"
        /\ (LengthOk /\ ~CrcOk) => c_result.err = "ChecksumMismatch"
        /\ (LengthOk /\ CrcOk /\ ~IdKnown) => c_result.err = "UnknownDeviceId"
        /\ c_result.ok => (LengthOk /\ CrcOk /\ IdKnown)

\* C7, amended: decode checks the length, then the CRC; a reply whose serial
\* number field holds a byte that is not ASCII then fails with a decode
\* error whatever its identification code; otherwise an unknown
\* identification code fails with the unknown-device-id error; decode returns
\* a value only when all checks pass.
C7_CheckOrder ==
    c_stage = "decoded" =>
        /\ ~LengthOk => c_result.err = "InvalidLength"
        /\ (LengthOk /\ ~CrcOk) => c_result.err = "ChecksumMismatch"
        /\ (LengthOk /\ CrcOk /\ ~SerialOk) => c_result.err = "UnicodeDecodeError"
        /\ (LengthOk /\ CrcOk /\ SerialOk /\ ~IdKnown) => c_result.err = "UnknownDeviceId"
        /\ c_result.ok => (LengthOk /\ CrcOk /\ SerialOk /\ IdKnown)

\* C7, its case: a foreign datagram passed the length and CRC checks and
\* failed the last one
C7_Witness ==
    /\ c_stage = "decoded"
    /\ c_origin = "crafted"
    /\ LengthOk
    /\ CrcOk
    /\ c_result.err = "UnknownDeviceId"

\* C8: the encoded request for AC_THOR is cb 7a 4e 84 "AC-THOR" and 21 zero
\* bytes.
C8_RequestBytes ==
    (c_stage = "encoded" /\ c_msg.kind = "request" /\ c_msg.device_id = AC_THOR)
    => c_frame = <<203, 122, 78, 132, 65, 67, 45, 84, 72, 79, 82>> \o Zeros(21)

\* C8, its case: the request for AC_THOR was encoded
C8_Witness ==
    /\ c_stage = "encoded"
    /\ c_msg.kind = "request"
    /\ c_msg.device_id = AC_THOR
    /\ Len(c_frame) = 32

\* the session object and its store are built
StoreExists == features # NoFeatures

\* C9: the store always holds exactly RANGE_STOP - RANGE_START = 89 values,
\* whatever readable_registers is.
C9_StoreLength == StoreExists => Len(values) = 89

\* C9, its case: a session reading 81 registers went through a successful
\* and a failed refresh
C9_Witness ==
    /\ phase = "Ready"
    /\ features.readable_registers = 81
    /\ call.result = "LengthMismatch"
    /\ values # Zeros(StoreLength)

\* the store after the k-th read was applied whole
StoreAfter(k) ==
    Padded(ReadResult(k, features.readable_registers), features.readable_registers,
           StoreLength)

\* C10: at every point the store is all zero or the complete zero-padded
\* result of one read, under any interleaving of overlapping refreshes.
C10_WholeReads ==
    StoreExists => (values = Zeros(StoreLength) \/ \E k \in 1..reads : values = StoreAfter(k))

\* C10, its case: two refreshes overlapped and the later read was applied
\* while the earlier one is still awaited
C10_Witness ==
    /\ phase = "Ready"
    /\ \E t \in Tasks :
          /\ tasks[t].pc = "await"
          /\ tasks[t].read = 2
          /\ values = StoreAfter(3)

\* the step in which the update_registers call that issued read k returns
\* without an error
UpdateDone(k) ==
    \/ /\ k = 1
       /\ phase = "Refreshing"
       /\ phase' = "Ready"
    \/ \E t \in Tasks :
          /\ tasks[t].pc = "await"
          /\ tasks[t].read = k
          /\ tasks'[t].pc = "idle"
          /\ call'.result = "ok"

\* C11: when update_registers succeeds on a session with readable_registers
\* = n, its one read asked for n registers from address 1000, the transport
\* returned n values, store slots 0..n-1 hold them in order and slots n..88
\* are zero.
C11_ReadAndPad ==
    [][\A k \in 1..reads :
        UpdateDone(k) =>
            LET n == features.readable_registers
            IN  /\ requests[k] = <<1000, n>>
                /\ requests' = requests
                /\ call'.args = <<k, n>>
                /\ Len(values') = 89
                /\ \A i \in 1..89 :
                      values'[i] = IF i <= n THEN ReadResult(k, n)[i] ELSE 0]_vars

\* C11, its case: a refresh of a session reading 81 registers succeeded
C11_Witness ==
    /\ features.readable_registers = 81
    /\ call.op = "update_registers"
    /\ call.result = "ok"
    /\ values[81] # 0
    /\ values[82] = 0

\* the boolean flags of DeviceFeatures
Flags ==
    {"has_load_state_outputs", "has_three_phases", "has_max_power_abs",
     "has_power_outputs", "has_power_with_relays", "has_device_powers",
     "has_pwm_out", "has_meter_power_32"}

\* V <= W, comparing the version first and the sub-version second
VersionLe(v, w) == v[1] < w[1] \/ (v[1] = w[1] /\ v[2] <= w[2])

\* C12: for one is_nine_series value and versions V <= W, every flag true in
\* the capability set built for V is true in the one built for W.
C12_FlagsMonotonic ==
    (p_op = "build" /\ VersionLe(p_in.v, p_in.w))
    => \A flag \in Flags : p_out.v[flag] => p_out.w[flag]

\* C12, its case: a firmware-gated flag is set at a version and at a later
\* version with a smaller sub-version
C12_Witness ==
    /\ p_op = "build"
    /\ p_in.v = <<102, 5>>
    /\ p_in.w = <<203, 0>>
    /\ p_out.v.has_max_power_abs
    /\ p_out.w.has_max_power_abs
    /\ ~p_out.w.has_device_powers

\* C13, as claimed: if the device-state register is available at version V,
\* it is available at every version W >= V.
C13_DeviceStateMonotonic ==
    (p_op = "build" /\ VersionLe(p_in.v, p_in.w)
        /\ has_register(p_out.v, "device_state"))
    => has_register(p_out.w, "device_state")

\* C13, amended: if the device-state register is available at a version V
\* of major 101 or later, it is available at every version W >= V.
C13_DeviceStateMonotonicFrom101 ==
    (p_op = "build" /\ VersionLe(p_in.v, p_in.w) /\ p_in.v[1] >= 101
        /\ has_register(p_out.v, "device_state"))
    => has_register(p_out.w, "device_state")

\* C13, its case: the register is available at 102.5 and at the later 210.2
C13_Witness ==
    /\ p_op = "build"
    /\ p_in.v = <<102, 5>>
    /\ p_in.w = <<210, 2>>
    /\ has_register(p_out.v, "device_state")
    /\ has_register(p_out.w, "device_state")

\* C14: the built capability set has readable_registers = 81 if the major
\* version is 101 and 89 otherwise, whatever the minor version and the
\* hardware variant; Quirks.register_count agrees.
C14_ReadableRegisters ==
    p_op = "build" =>
        /\ p_out.v.readable_registers = (IF p_in.v[1] = 101 THEN 81 ELSE 89)
        /\ p_out.w.readable_registers = (IF p_in.w[1] = 101 THEN 81 ELSE 89)
        /\ register_count(p_in.v) = p_out.v.readable_registers
        /\ register_count(p_in.w) = p_out.w.readable_registers

\* C14, its case: a 9-series device of version 101.5 next to one of 100.0
C14_Witness ==
    /\ p_op = "build"
    /\ p_in.is_9s
    /\ p_in.v = <<101, 5>>
    /\ p_in.w = <<100, 0>>
    /\ p_out.v.readable_registers = 81
    /\ p_out.w.readable_registers = 89

\* the first 6 characters of the serial number a device holds
SerialCode(d) == Slice(JoinRegisters(d.sn), 0, 6)

\* C15: for any contents of the serial-number registers whose first 6
\* characters are no known model code, DeviceFeatures.read returns the
\* capability set of a non-9-series device for the firmware version read.
C15_UnknownSerialAccepted ==
    (p_op = "read" /\ SerialCode(p_in) \notin DeviceType)
    => /\ p_out.ok
       /\ p_out.features = Build(<<p_in.fw, p_in.sub>>, FALSE)
       /\ ~p_out.features.has_three_phases
       /\ ~p_out.features.has_power_outputs
       /\ ~p_out.features.has_power_with_relays

\* the keys the claim names as gated
GatedKeys ==
    {"power_with_relays", "output_powers", "max_power_abs", "device_power_total",
     "device_power_solar", "device_power_grid", "pwm_out", "meter_power_32",
     "hot_water_2_temperature_range", "hot_water_3_temperature_range"}

\* non-9-series, old firmware
MinimalFeatures == Build(<<101, 3>>, FALSE)

\* C16: on a store as built, to_dict returns a dictionary whose keys are
\* exactly the views for which has_register is true: with minimal
\* capabilities none of the gated keys, with DeviceFeatures.all() all of
\* them, and the other views in both.
C16_KeysAreAvailableViews ==
    (p_op = "to_dict" /\ p_in.store = Zeros(89))
    => /\ p_out.ok
       /\ p_out.keys = {key \in ViewSet : has_register(p_in.features, key)}
       /\ p_in.features = MinimalFeatures => p_out.keys \cap GatedKeys = {}
       /\ p_in.features = FeaturesAll => GatedKeys \subseteq p_out.keys
       /\ (ViewSet \ (GatedKeys \cup {"device_state"})) \subseteq p_out.keys

\* the values a store holds at the addresses from, from + step, ... below upto
RECURSIVE ValuesFrom(_, _, _, _)
ValuesFrom(store, from, upto, step) ==
    IF from >= upto THEN <<>>
    ELSE <<store[from - 1000 + 1]>> \o ValuesFrom(store, from + step, upto, step)

\* C17: a raw read of an address outside [1000, 1089) fails with the
\* out-of-range error; a slice read fails with it whenever a given start is
\* outside [1000, 1089) or a given stop is below 1000 or above 1089; a slice
\* read that succeeds returns the values at start, start + step, ... below
\* stop.
C17_RawReadsBounded ==
    /\ p_op = "getitem" =>
          (~(1000 <= p_in[1] /\ p_in[1] < 1089) => p_out.err = "IndexError")
    /\ p_op = "getslice" =>
          LET start == p_in[1]
              stop == p_in[2]
              step == p_in[3]
          IN  /\ (start # <<>> /\ ~(1000 <= start[1] /\ start[1] < 1089))
                    => p_out.err = "IndexError"
              /\ (stop # <<>> /\ (stop[1] < 1000 \/ stop[1] > 1089))
                    => p_out.err = "IndexError"
              /\ (p_out.ok /\ (step = <<>> \/ step[1] > 0))
                    => p_out.value =
                          ValuesFrom(RawStore,
                                     IF start = <<>> THEN 1000 ELSE start[1],
                                     IF stop = <<>> THEN 1089 ELSE stop[1],
                                     IF step = <<>> THEN 1 ELSE step[1])

\* a datagram: its CRC field matches, its identification code is known
DatagramCrcOk(data) ==
    FromBytesLittle(Slice(data, 0, 2)) = _crc16(SliceFrom(data, 2))
DatagramIdKnown(data) == FromBytesBig(Slice(data, 2, 4)) \in DeviceIdentification

\* the two replies among the datagrams, as their senders built them
SentReplies ==
    <<Reply(AC_THOR, <<49320, 266>>,
            <<50, 48, 48, 49, 48, 49, 48, 48, 48, 48, 48, 48, 48, 48, 48, 48>>, 10, 1),
      Reply(AC_ELWA_2, <<49320, 267>>, <<104, 105>>, 65535, 2)>>

\* C18: a datagram puts a reply on the collector's queue only if it is 64
\* bytes long, its CRC matches and its identification code is known, and
\* the reply is the datagram's decoded value; a datagram of 32 bytes is
\* ignored without a decode attempt; a datagram that fails to decode
\* delivers nothing and leaves the listening session as it was.
C18_OnlyValidReplies ==
    [][l_rx' # l_rx =>
        LET data == Datagrams[l_last'.data]
            grew == l_queue'.items # l_queue.items
        IN  /\ grew =>
                  /\ Len(data) = 64
                  /\ DatagramCrcOk(data)
                  /\ DatagramIdKnown(data)
                  /\ l_last'.data \in 1..2
                  /\ Len(l_queue'.items) = Len(l_queue.items) + 1
                  /\ SubSeq(l_queue'.items, 1, Len(l_queue.items)) = l_queue.items
                  /\ l_queue'.items[Len(l_queue'.items)].reply = SentReplies[l_last'.data]
            /\ Len(data) = 32 => (~grew /\ ~l_last'.decoded)
            /\ (Len(data) # 64 \/ ~DatagramCrcOk(data) \/ ~DatagramIdKnown(data)
                    \/ ~ReplyDecode(data).ok)
                  => /\ ~grew
                     /\ l_queue' = l_queue
                     /\ l_delivered' = l_delivered
                     /\ <<l_pc', l_socket', l_callback', l_timer'>>
                            = <<l_pc, l_socket, l_callback, l_timer>>]_vars

\* C18, its case: after a looped-back request and a reply that failed to
\* decode, a reply was decoded and handed to the consumer
C18_Witness ==
    /\ l_rx = 3
    /\ l_last.data = 1
    /\ l_last.outcome = "delivered"
    /\ l_pc = "yield"
    /\ l_delivered = <<[reply |-> SentReplies[1], late |-> FALSE]>>
    /\ l_socket = "open"

\* the window has expired, or the listener context has been left
WindowOver == l_timer = "fired" \/ l_pc = "done"

NoLateDelivery == \A i \in 1..Len(l_delivered) : ~l_delivered[i].late

\* C19, as claimed: once the window has expired or the context has been
\* left, no reply from a datagram that arrived later is delivered, and the
\* socket is closed.
C19_ClosedOnExpiry ==
    WindowOver => (NoLateDelivery /\ l_socket # "open")

\* C19, amended: no reply from a datagram that arrived after the window
\* expired or the context was left is delivered; the socket is closed once
\* the context has been left, which after expiry happens when the consumer
\* next waits for a reply and finds the queue drained.
C19_NoLateDelivery ==
    /\ NoLateDelivery
    /\ l_pc = "done" => l_socket # "open"
    /\ (l_socket = "open" /\ l_timer = "fired")
          => (l_pc \in {"entering", "yield"} \/ (l_pc = "get" /\ ENABLED ConsumerGet))

\* C19, its case: a reply that arrived after the window expired was refused
\* by the queue, and the consumer, handed an earlier reply, went on to find
\* the queue drained and left
C19_Witness ==
    /\ l_timer = "fired"
    /\ l_last.data = 2
    /\ l_last.late
    /\ l_last.outcome = "raised"
    /\ l_delivered = <<[reply |-> SentReplies[1], late |-> FALSE]>>
    /\ l_pc = "done"
    /\ l_socket = "closed"

\* C20: with a consumer that keeps iterating, once the duration has elapsed
\* the iteration ends; and whenever it has ended, on whatever path, the
\* transport is closed and the timer can no longer fire.
C20_Terminates ==
    /\ (l_timer = "fired") ~> (l_pc = "done")
    /\ [](l_pc = "done" => (l_socket # "open" /\ l_timer # "armed"))

\* C20, its case: the timer fired with replies still queued, they were handed
\* over, and the iteration ended
C20_Witness ==
    /\ l_pc = "done"
    /\ l_timer = "fired"
    /\ Len(l_delivered) = 2
    /\ l_queue.items = <<>>
    /\ l_socket = "closed"
    /\ ~l_lost

\* C21: set_device_state on a session whose capability set gates the
\* device-state register off (fewer than 82 readable registers) fails with the
\* unsupported-on-device error and issues no write; on a session where the
\* register is available it issues exactly one single-register write, of 0 or
\* 1, to address 1081.
C21_DeviceStateGated ==
    call.op = "set_device_state" =>
        IF features.readable_registers < 82
        THEN call.result = "UnsupportedOnDevice" /\ call.writes = <<>>
        ELSE /\ Len(call.writes) = 1
             /\ call.writes[1][1] = "write_register"
             /\ call.writes[1][2] = 1081
             /\ call.writes[1][3] \in {<<0>>, <<1>>}
             /\ call.writes[1][3][1] = 1 <=> call.args[1]

C21_Witness ==
    /\ call.op = "set_device_state"
    /\ features.readable_registers < 82
    /\ call.result = "UnsupportedOnDevice"
    /\ call.writes = <<>>

\* C22: set_power(p) issues exactly one write for every p in 0..0xFFFFFFFF and
\* none otherwise: for p <= 0xFFFF a single-register write of p to address
\* 1000; for p > 0xFFFF a two-register write of [p >> 16, p & 0xFFFF] starting
\* at address 1078, so that the power_32 view of the written registers equals
\* p; for any other p the call fails with the value-out-of-bounds error
\* before any write.
C22_SetPower ==
    call.op = "set_power" =>
        LET p == call.args[1]
        IN  IF p[1] < 0 \/ p[1] > 65535
            THEN call.result = "ValueOutOfBounds" /\ call.writes = <<>>
            ELSE IF p[1] = 0
            THEN call.writes = << <<"write_register", 1000, <<p[2]>>>> >>
            ELSE /\ call.writes = << <<"write_registers", 1078, <<p[1], p[2]>>>> >>
                 /\ power_32(Written(Zeros(StoreLength), call.writes)) = p

C22_Witness ==
    /\ call.op = "set_power"
    /\ call.args[1] = <<65535, 65535>>
    /\ call.result = "ok"
    /\ Len(call.writes) = 1

\* the addresses the writes of a call carry a value for
WrittenAddresses(writes) ==
    UNION {{writes[i][2] + k - 1 : k \in 1..Len(writes[i][3])} : i \in 1..Len(writes)}

\* the number of values the writes of a call carry
RECURSIVE WrittenCount(_)
WrittenCount(writes) ==
    IF writes = <<>> THEN 0 ELSE Len(Head(writes)[3]) + WrittenCount(Tail(writes))

LegionellaFields == {"interval_days", "start_hour", "temperature", "enabled"}
LegionellaAddress ==
    [interval_days |-> 1053, start_hour |-> 1054, temperature |-> 1055, enabled |-> 1056]

\* the value set_legionella_config is to write for a field: <<>> for none
LegionellaChoice(args, field) ==
    LET kw == CASE field = "enabled" -> args[2]
                [] field = "temperature" -> args[3]
                [] field = "interval_days" -> args[4]
                [] field = "start_hour" -> args[5]
    IN  IF kw # <<>> THEN kw
        ELSE IF args[1] # <<>> THEN <<args[1][1][field]>>
        ELSE <<>>

\* C25: set_legionella_config writes, for each of the four fields, the keyword
\* argument when it is not None, otherwise the settings object's field when
\* settings is given, otherwise nothing; interval_days lands at 1053,
\* start_hour at 1054, temperature at 1055 and enabled (as 0 or 1) at 1056,
\* where the legionella view reads them; when settings is given all four
\* registers are written. A write the transport fails ends the call, so the
\* fields written are then only some of those chosen.
C25_LegionellaChoice ==
    call.op = "set_legionella_config" =>
        LET chosen == {f \in LegionellaFields : LegionellaChoice(call.args, f) # <<>>}
            addresses == WrittenAddresses(call.writes)
            image == Written(Zeros(StoreLength), call.writes)
            view == legionella(image)
        IN  /\ addresses \subseteq {LegionellaAddress[f] : f \in chosen}
            /\ call.result = "ok" => addresses = {LegionellaAddress[f] : f \in chosen}
            /\ WrittenCount(call.writes) = Cardinality(addresses)
            /\ \A f \in chosen :
                  LegionellaAddress[f] \in addresses =>
                      /\ view[f] = LegionellaChoice(call.args, f)[1]
                      /\ f = "enabled" => image[57] \in {0, 1}
            /\ (call.args[1] # <<>> /\ call.result = "ok") => addresses = 1053..1056

C25_Witness ==
    /\ call.op = "set_legionella_config"
    /\ call.args[1] # <<>> /\ call.args[1][1].temperature = 65
    /\ call.args[3] = <<60>>
    /\ call.args[2] = <<>>
    /\ call.result = "ok"
    /\ call.writes = << <<"write_registers", 1053, <<7, 3, 60, 1>>>> >>

\* a write covers exactly one maximal run of entries that are not None: it
\* starts at the run's first entry, carries the run's values in order, and
\* the entries next to the run are None or outside the list
IsRunWrite(w, start_address, vals) ==
    LET first == w[2] - start_address + 1
        last == first + Len(w[3]) - 1
    IN  /\ w[1] = "write_registers"
        /\ 1 <= first /\ first <= last /\ last <= Len(vals)
        /\ \A k \in first..last : vals[k] = <<w[3][k - first + 1]>>
        /\ first = 1 \/ vals[first - 1] = <<>>
        /\ last = Len(vals) \/ vals[last + 1] = <<>>

\* C30: _write_registers_with_holes(start_address, values) issues exactly one
\* multi-register write per maximal run of consecutive entries that are not
\* None, in increasing offset order, each at start_address plus the index of
\* the run's first entry and carrying exactly the run's values; None is never
\* written, no address is written twice, and a list of None only issues no
\* write. A write the transport fails is the last one issued: the runs
\* before it have been written, those after it have not.
C30_OneWritePerRun ==
    p_op = "_write_registers_with_holes" =>
        LET start_address == p_in[1]
            vals == p_in[2]
            writes == p_out.writes
            given == {k \in 1..Len(vals) : vals[k] # <<>>}
            covered == {a - start_address + 1 : a \in WrittenAddresses(writes)}
        IN  /\ \A i \in 1..Len(writes) : IsRunWrite(writes[i], start_address, vals)
            /\ \A i \in 1..(Len(writes) - 1) : writes[i][2] < writes[i + 1][2]
            /\ covered \subseteq given
            /\ WrittenCount(writes) = Cardinality(covered)
            /\ p_out.result = "ok" => covered = given
            /\ p_out.result # "ok" =>
                  /\ Len(writes) = p_in[3]
                  /\ \A k \in given : k \in covered \/ \A c \in covered : c < k
            /\ given = {} => writes = <<>>

C30_Witness ==
    /\ p_op = "_write_registers_with_holes"
    /\ p_in[1] = 1053
    /\ p_in[2] = <<<<5>>, <<>>, <<0>>, <<5>>>>
    /\ p_out.result = "ok"
    /\ p_out.writes = << <<"write_registers", 1053, <<5>>>>,
                         <<"write_registers", 1055, <<0, 5>>>> >>

\* the number PowerStageOutput gives a member
OutputNumber(name) ==
    CASE name = "OFF" -> 0 [] name = "OUT_1" -> 1 [] name = "OUT_2" -> 2
      [] name = "OUT_3" -> 3 [] OTHER -> -1

\* C24: for every 16-bit register value r, PowerStage gives power = r mod
\* 4096, output = (r div 4096) mod 4 (0 is OFF, 1 to 3 are OUT_1 to OUT_3),
\* relay_out_2 = bit 14 of r and relay_out_3 = bit 15 of r, so that r = power
\* + 4096 * output + 16384 * relay_out_2 + 32768 * relay_out_3.
C24_PowerStageDecomposition ==
    p_op = "power_stage" =>
        LET r == p_in[1]
            s == p_out
        IN  /\ s.power = r % 4096
            /\ OutputNumber(s.output) = (r \div 4096) % 4
            /\ s.relay_out_2 <=> (r \div 16384) % 2 = 1
            /\ s.relay_out_3 <=> (r \div 32768) % 2 = 1
            /\ r = s.power + 4096 * OutputNumber(s.output)
                    + 16384 * BoolInt(s.relay_out_2) + 32768 * BoolInt(s.relay_out_3)

C24_Witness ==
    /\ p_op = "power_stage"
    /\ p_in = <<16384 + 2 * 4096 + 1500>>
    /\ p_out = [relay_out_2 |-> TRUE, relay_out_3 |-> FALSE, output |-> "OUT_2",
                power |-> 1500]

WriteOps == {"set_boost_config", "set_hot_water_config", "set_device_state",
             "set_power", "set_legionella_config"}
ReadOps == {"view", "has_register", "to_dict", "getitem", "getslice"}

\* C23: the store's contents change only through set_values, as
\* update_registers calls it: every typed view read, raw read, has_register,
\* to_dict and every write method of the session leaves the values of the
\* store, the capability set and the identity of the session's Registers
\* object unchanged.
C23_Frame ==
    [][/\ features' = features
       /\ _registers' = _registers
       /\ (call' # call /\ call'.op \in WriteOps \cup ReadOps) => values' = values
       /\ values' # values =>
             /\ call'.op = "update_registers"
             /\ \E t \in Tasks : tasks[t].pc = "await" /\ tasks'[t].pc = "idle"]_vars

C23_Witness ==
    /\ call.op = "set_power"
    /\ call.result = "ok"
    /\ call.writes[1][2] = 1000
    /\ values[1] # call.writes[1][3][1]
    /\ values[1] # 0
    /\ \E t \in Tasks : tasks[t].pc = "await"

\* the steps a session takes from one phase to the next
PhaseSteps ==
    {<<"Disconnected", "Connecting">>, <<"Disconnected", "Identifying">>,
     <<"Connecting", "Identifying">>, <<"Connecting", "Failed">>,
     <<"Identifying", "Refreshing">>, <<"Identifying", "Failed">>,
     <<"Refreshing", "Ready">>, <<"Refreshing", "Failed">>}

\* C26: a session goes from Disconnected through Identifying to Ready in that
\* order: until the identification read has completed there is no capability
\* set, no store and no full-range read; the store is allocated when the
\* first refresh is issued; and the session is returned (Ready) only by the
\* step in which the first refresh succeeds, so that the store of a returned
\* session always holds the result of a completed read.
C26_Lifecycle ==
    /\ [](/\ phase \in {"Disconnected", "Connecting", "Identifying"} =>
              /\ features = NoFeatures
              /\ _registers = 0
              /\ values = <<>>
              /\ reads = 0
              /\ requests = <<>>
          /\ reads >= 1 =>
              /\ features # NoFeatures
              /\ _registers # 0
              /\ Len(values) = 89
              /\ requests[1] = <<1000, features.readable_registers>>
          /\ phase = "Ready" => \E k \in 1..reads : values = StoreAfter(k))
    /\ [][/\ phase' # phase => <<phase, phase'>> \in PhaseSteps
          /\ (phase' = "Ready" /\ phase # "Ready") =>
                /\ reads = 1
                /\ call'.op = "from_modbus" /\ call'.result = "ok"
                /\ values' = StoreAfter(1)
          /\ (phase = "Identifying" /\ phase' = "Refreshing") =>
                /\ features' = FeaturesRead(IdentWindow(device)).features
                /\ values' = Zeros(89)
                /\ reads' = 1]_vars

C26_Witness ==
    /\ phase = "Ready"
    /\ call.op = "from_modbus"
    /\ reads = 1
    /\ values = StoreAfter(1)
    /\ features.readable_registers = 81

\* C27: on a freshly created store (all 89 slots zero) under any capability
\* set, reading every typed view and calling to_dict completes without
\* raising an error.
C27_FreshStoreReadable ==
    (p_op = "to_dict" /\ p_in.store = Zeros(89))
    => /\ \A view \in ViewSet : Decodes(view, p_in.store)
       /\ p_out.ok

\* C28: over any sequence of connection_lost, error_received and
\* datagram_received events the callback is invoked with None at most once,
\* and once it has been, the callback is not invoked again: no datagram that
\* arrives afterwards reaches it, and nothing more is put on the queue.
C28_EndOfStreamOnce ==
    /\ [](l_signals <= 1)
    /\ [][l_signals >= 1 =>
            /\ l_signals' = l_signals
            /\ l_rx' # l_rx => l_last'.outcome \notin {"delivered", "raised"}
            /\ Len(l_queue'.items) <= Len(l_queue.items)]_vars

C28_Witness ==
    /\ l_signals = 1
    /\ l_socket = "open"
    /\ l_last.data \in {1, 2}
    /\ l_last.outcome = "dropped"

\* C29: handling an inbound datagram never raises out of datagram_received,
\* in any state of the listener; a valid reply that arrives after the timer
\* has shut the queue down and before the transport is closed is dropped.
C29_NeverRaises ==
    /\ l_last.outcome # "raised"
    /\ (l_last.late /\ l_last.data \in {1, 2} /\ l_last.outcome # "unread") =>
          l_last.outcome = "dropped"

=============================================================================
